---- MODULE Spec2Model ----
(***************************************************************************)
(* A model of the academy back end: the user and class stores, the         *)
(* enroll / unenroll handlers of api/index.js, and the user routes        *)
(* (sign-up, gates, update, delete, listings) of api/routes/user-routes.js,*)
(* and the middleware in front of them: CORS, the rate limiters of         *)
(* api/middleware/rate-limit.js and the connection cache of api/db.js.     *)
(* Every await of a handler is one action: the store (or IdP) operation    *)
(* and the synchronous code that follows it up to the next await.          *)
(***************************************************************************)
EXTENDS Integers, Sequences, FiniteSets, TLC

VARIABLES
  users,    \* the User collection: id -> document
  classes,  \* the Class collection: id -> document
  idp,      \* the IdP (Clerk): subject id -> account
  req,      \* the requests in flight: slot -> request
  started,  \* the number of requests received so far
  cached,   \* db.js: global.__mongooseCached, {conn, promise}
  dials,    \* the mongoose.connect() calls made so far: dial -> its promise
  hits,     \* the rate limiters' stores: limiter -> client address -> count
  env       \* process.env, as read by db.js

\* The state of the process outside the stores and the requests.
process == <<cached, dials, hits, env>>

vars == <<users, classes, idp, req, started, cached, dials, hits, env>>

(***************************************************************************)
(* Bounds and universes                                                    *)
(***************************************************************************)
\* The number of requests a behaviour receives.
MaxRequests == 2

\* Requests are served concurrently; two of them may be in flight at a time.
Slots == {1, 2}

\* Store ids. u1 and u2 are the documents of the initial store; u3 and u4 are
\* well-formed ids of no document until a sign-up is assigned them.
UserIds == {"u1", "u2", "u3", "u4"}
ClassIds == {"c1", "c2"}
\* IdP subject ids; s3 is an IdP account with no local record yet.
Subjects == {"s1", "s2", "s3"}
Emails == {"e1", "e2", "e3"}
\* Addresses that no user and no IdP subject holds at the start.
FreshEmails == {"e4", "e5"}
NoSession == "nosession"
\* Client addresses, as req.ip gives them.
Addrs == {"a1", "a2"}
Limiters == {"api", "burst"}
Absent == "absent"

\* :id values a client may send: stored ids, a well-formed id of no document
\* (u3), and a string that is no ObjectId.
BadId == "bad"
ParamIds == {"u1", "u2", "u3", BadId}

Range(s) == {s[i] : i \in 1..Len(s)}

(***************************************************************************)
(* Store operators                                                         *)
(***************************************************************************)
\* A User document; an id with no document is free (never assigned) or deleted.
NoUser(st) ==
  [state |-> st, clerkId |-> "none", email |-> "none", privilege |-> "none",
   enrolledClasses |-> <<>>]

LiveUser(s, e, p, cs) ==
  [state |-> "live", clerkId |-> s, email |-> e, privilege |-> p,
   enrolledClasses |-> cs]

\* mongoose.Types.ObjectId.isValid(id)
IsValidObjectId(id) == id # BadId

\* User.findById(id) / Class.findById(id) returning a document (not null)
UserFound(id) == id \in UserIds /\ users[id].state = "live"
ClassFound(c) == c \in ClassIds /\ classes[c].exists

\* user.enrolledClasses.includes(classId)
Includes(arr, x) == x \in Range(arr)

\* A plain { $push: { field: x } } in the place of $addToSet.
AddToSet_Push(arr, x) == Append(arr, x)

\* { $addToSet: { field: x } }
AddToSet(arr, x) == IF x \in Range(arr) THEN arr ELSE Append(arr, x)

\* { $pull: { field: x } }
Pull(arr, x) == SelectSeq(arr, LAMBDA y : y # x)

\* User.findByIdAndUpdate(id, {$addToSet|$pull: {enrolledClasses: c}}): a no-op
\* (null result, no error) when no document has that id.
UsersAfterAdd(id, c) ==
  IF UserFound(id)
    THEN [users EXCEPT ![id].enrolledClasses = AddToSet(@, c)]
    ELSE users

UsersAfterPull(id, c) ==
  IF UserFound(id)
    THEN [users EXCEPT ![id].enrolledClasses = Pull(@, c)]
    ELSE users

\* Class.findByIdAndUpdate(classId, {$addToSet|$pull: {roster: id}})
ClassesAfterAdd(c, id) ==
  IF ClassFound(c)
    THEN [classes EXCEPT ![c].roster = AddToSet(@, id)]
    ELSE classes

ClassesAfterPull(c, id) ==
  IF ClassFound(c)
    THEN [classes EXCEPT ![c].roster = Pull(@, id)]
    ELSE classes

(***************************************************************************)
(* Requests                                                                *)
(***************************************************************************)
\* The body gives no array for a field.
AbsentList == <<Absent>>

\* A JSON body: the fields the handlers read or store, each a value or absent.
NoBody ==
  [email |-> Absent, privilege |-> Absent, clerkId |-> Absent,
   enrolledClasses |-> AbsentList, complete |-> TRUE]

\* What a handler keeps of the document it looked up first.
NoOrig ==
  [email |-> "none", clerkId |-> "none", enrolledClasses |-> <<>>, oldId |-> 0]

\* The query string of GET /api/user after validateInput: the allowlisted
\* filters, each a value or absent.
NoQuery == [id |-> Absent, email |-> Absent]

\* What the middleware reads of the HTTP request, and what dbConnect() gave
\* it: the promise it awaits and the handle returned (0: none).
NoHttp ==
  [method |-> "none", path |-> "none", origin |-> "none", ip |-> "none",
   badJson |-> FALSE, awaited |-> 0, handle |-> 0]

Idle ==
  [kind |-> "idle", pc |-> "idle", session |-> NoSession, id |-> "none",
   classId |-> "none", body |-> NoBody, query |-> NoQuery, status |-> 0,
   message |-> "", result |-> "none", via |-> "none", dbFault |-> FALSE,
   orig |-> NoOrig, pending |-> {}, http |-> NoHttp]

\* res.status(s).json({message: m}) ending the handler
Respond(r, s, m) ==
  req' = [req EXCEPT ![r].pc = "done", ![r].status = s, ![r].message = m]

\* the catch block: the awaited store operation rejected
RespondFault(r, m) ==
  req' = [req EXCEPT ![r].pc = "done", ![r].status = 500, ![r].message = m,
                     ![r].dbFault = TRUE]

Goto(r, label) == req' = [req EXCEPT ![r].pc = label]

At(r, kind, label) == req[r].kind = kind /\ req[r].pc = label

\* A new request takes the first free slot, while the budget lasts.
CanStart(r) ==
  /\ req[r].kind = "idle"
  /\ \A q \in Slots : q < r => req[q].kind # "idle"
  /\ started < MaxRequests

\* A client sends PUT /api/users/:id/enroll or /unenroll {classId}; the routes
\* are mounted without requireAuth, so the handler is entered whatever the
\* session is.
StartRoster(r) ==
  /\ CanStart(r)
  /\ started' = started + 1
  /\ \E k \in {"enroll", "unenroll"}, s \in {NoSession, "s1"},
        id \in ParamIds, c \in ClassIds :
       req' = [req EXCEPT ![r] = [Idle EXCEPT !.kind = k, !.pc = "findUser",
                                              !.session = s, !.id = id,
                                              !.classId = c]]
  /\ UNCHANGED <<users, classes, idp, process>>

\* The response has been sent; the slot is free again.
Retire(r) ==
  /\ req[r].pc = "done"
  /\ req[r].pending = {}
  /\ req' = [req EXCEPT ![r] = Idle]
  /\ UNCHANGED <<users, classes, idp, started, process>>

(***************************************************************************)
(* PUT /api/users/:id/enroll                                               *)
(***************************************************************************)
EnrollErr == "Error enrolling into class"

\* EnrollFindUser without the includes() test.
EnrollFindUser_NoIncludesCheck(r) ==
  /\ At(r, "enroll", "findUser")
  /\ UNCHANGED <<users, classes, idp, started, process>>
  /\ IF ~IsValidObjectId(req[r].id)
       THEN Respond(r, 400, "Invalid ID")
       ELSE \/ RespondFault(r, EnrollErr)
            \/ /\ ~UserFound(req[r].id)
               /\ Respond(r, 500, EnrollErr)
            \/ /\ UserFound(req[r].id)
               /\ Goto(r, "findClass")

\* isValid(id); await User.findById(id); user.enrolledClasses.includes(classId)
EnrollFindUser(r) ==
  /\ At(r, "enroll", "findUser")
  /\ UNCHANGED <<users, classes, idp, started, process>>
  /\ IF ~IsValidObjectId(req[r].id)
       THEN Respond(r, 400, "Invalid ID")
       ELSE \/ RespondFault(r, EnrollErr)
            \/ /\ ~UserFound(req[r].id)      \* user is null: TypeError, caught
               /\ Respond(r, 500, EnrollErr)
            \/ /\ UserFound(req[r].id)
               /\ IF Includes(users[req[r].id].enrolledClasses, req[r].classId)
                    THEN Respond(r, 400, "Already enrolled in this class")
                    ELSE Goto(r, "findClass")

\* EnrollFindClass without the isEnrollmentOpen check.
EnrollFindClass_NoOpenCheck(r) ==
  /\ At(r, "enroll", "findClass")
  /\ UNCHANGED <<users, classes, idp, started, process>>
  /\ \/ RespondFault(r, EnrollErr)
     \/ /\ ~ClassFound(req[r].classId)
        /\ Respond(r, 404, "Class not found")
     \/ /\ ClassFound(req[r].classId)
        /\ Goto(r, "addUser")

\* await Class.findById(classId); the existence and isEnrollmentOpen checks
EnrollFindClass(r) ==
  /\ At(r, "enroll", "findClass")
  /\ UNCHANGED <<users, classes, idp, started, process>>
  /\ \/ RespondFault(r, EnrollErr)
     \/ /\ ~ClassFound(req[r].classId)
        /\ Respond(r, 404, "Class not found")
     \/ /\ ClassFound(req[r].classId)
        /\ IF ~classes[req[r].classId].isEnrollmentOpen
             THEN Respond(r, 403, "Enrollment is currently closed for this class.")
             ELSE Goto(r, "addUser")

\* await User.findByIdAndUpdate(id, { $addToSet: { enrolledClasses: classId } })
EnrollAddUser(r) ==
  /\ At(r, "enroll", "addUser")
  /\ UNCHANGED <<classes, idp, started, process>>
  /\ \/ /\ RespondFault(r, EnrollErr)
        /\ UNCHANGED users
     \/ /\ users' = UsersAfterAdd(req[r].id, req[r].classId)
        /\ Goto(r, "addRoster")

\* await Class.findByIdAndUpdate(classId, { $addToSet: { roster: id } }); 201.
\* The catch block only logs and answers 500.
EnrollAddRoster(r) ==
  /\ At(r, "enroll", "addRoster")
  /\ UNCHANGED <<users, idp, started, process>>
  /\ \/ /\ RespondFault(r, EnrollErr)
        /\ UNCHANGED classes
     \/ /\ classes' = ClassesAfterAdd(req[r].classId, req[r].id)
        /\ Respond(r, 201, "Enrolled successfully!")

(***************************************************************************)
(* PUT /api/users/:id/unenroll                                             *)
(***************************************************************************)
UnenrollErr == "Error unenrolling into class"

UnenrollFindUser(r) ==
  /\ At(r, "unenroll", "findUser")
  /\ UNCHANGED <<users, classes, idp, started, process>>
  /\ IF ~IsValidObjectId(req[r].id)
       THEN Respond(r, 400, "Invalid ID")
       ELSE \/ RespondFault(r, UnenrollErr)
            \/ /\ ~UserFound(req[r].id)
               /\ Respond(r, 500, UnenrollErr)
            \/ /\ UserFound(req[r].id)
               /\ IF ~Includes(users[req[r].id].enrolledClasses, req[r].classId)
                    THEN Respond(r, 400, "Not enrolled in this class")
                    ELSE Goto(r, "pullUser")

UnenrollPullUser(r) ==
  /\ At(r, "unenroll", "pullUser")
  /\ UNCHANGED <<classes, idp, started, process>>
  /\ \/ /\ RespondFault(r, UnenrollErr)
        /\ UNCHANGED users
     \/ /\ users' = UsersAfterPull(req[r].id, req[r].classId)
        /\ Goto(r, "pullRoster")

UnenrollPullRoster(r) ==
  /\ At(r, "unenroll", "pullRoster")
  /\ UNCHANGED <<users, idp, started, process>>
  /\ \/ /\ RespondFault(r, UnenrollErr)
        /\ UNCHANGED classes
     \/ /\ classes' = ClassesAfterPull(req[r].classId, req[r].id)
        /\ Respond(r, 201, "Successfully unenrolled")

(***************************************************************************)
(* The class router (api/routes/class-routes.js) edits and deletes classes *)
(***************************************************************************)
SetEnrollmentOpen(c, b) ==
  /\ ClassFound(c)
  /\ classes[c].isEnrollmentOpen # b
  /\ classes' = [classes EXCEPT ![c].isEnrollmentOpen = b]
  /\ UNCHANGED <<users, idp, req, started, process>>

DeleteClass(c) ==
  /\ ClassFound(c)
  /\ classes' = [classes EXCEPT ![c] = [exists |-> FALSE,
                                        isEnrollmentOpen |-> FALSE,
                                        roster |-> <<>>]]
  /\ UNCHANGED <<users, idp, req, started, process>>

(***************************************************************************)
(* User routes: stores and the IdP                                         *)
(***************************************************************************)
Privileged == {"admin", "instructor"}
Privileges == {"student", "instructor", "admin"}

\* User.findOne({ clerkId }): the documents a lookup by clerkId can return
UsersByClerkId(s) ==
  {u \in UserIds : users[u].state = "live" /\ users[u].clerkId = s}

\* A role check that trusts the role the subject had when the session was
\* issued (the admin's session s1) in the place of the stored privilege.
IsAdminOrInstructor_SessionRole(s) == s = "s1"

\* isAdminOrInstructor(await User.findOne({ clerkId }).select("privilege"))
IsAdminOrInstructor(s) ==
  \E u \in UsersByClerkId(s) : users[u].privilege \in Privileged

\* User.findOne({ email })
EmailFound(e) == \E u \in UserIds : users[u].state = "live" /\ users[u].email = e

\* A store without the unique indexes.
UniqueIndexRejects_NoIndex(id, e, s) == FALSE

\* The unique indexes on User.email and User.clerkId: a write that would give
\* document id the email e and the clerkId s is rejected (duplicate key) when
\* another document holds either.
UniqueIndexRejects(id, e, s) ==
  \E v \in UserIds \ {id} :
    /\ users[v].state = "live"
    /\ users[v].email = e \/ users[v].clerkId = s

\* The schema's enum validator on privilege (runValidators: true)
PrivilegeValid(p) == p \in Privileges

\* The document after findByIdAndUpdate(id, updates): every field the body
\* gives replaces the stored one.
ApplyUpdates(doc, body) ==
  [doc EXCEPT
     !.email = IF body.email = Absent THEN @ ELSE body.email,
     !.privilege = IF body.privilege = Absent THEN @ ELSE body.privilege,
     !.clerkId = IF body.clerkId = Absent THEN @ ELSE body.clerkId,
     !.enrolledClasses = IF body.enrolledClasses = AbsentList
                           THEN @ ELSE body.enrolledClasses]

\* The _id the store assigns to a new document: one never used before.
FreeIds == {u \in UserIds : users[u].state = "free"}
NewId == CHOOSE u \in FreeIds : TRUE

(***************************************************************************)
(* Gates (api/middleware/auth.js, allowSelfOrPriv of user-routes.js)       *)
(***************************************************************************)
PrivKinds == {"delete", "list", "students"}

\* The first position of the handler behind the gate.
HandlerEntry(kind) ==
  IF kind = "update" THEN "updFind"
  ELSE IF kind = "delete" THEN "delFind"
  ELSE "query"

\* requireAuth = ClerkExpressRequireAuth(): 401 without a valid session, else
\* req.auth.userId is the session's subject and the next middleware runs.
RequireAuth(r) ==
  /\ req[r].pc = "auth"
  /\ UNCHANGED <<users, classes, idp, started, process>>
  /\ IF req[r].session = NoSession
       THEN Respond(r, 401, "Unauthorized")
       ELSE Goto(r, IF req[r].kind = "update" THEN "gateMe"
                    ELSE IF req[r].kind = "getUser" THEN "getMe"
                    ELSE "requirePriv")

\* requireAdminOrInstructor that only requires a local record.
RequireAdminOrInstructor_AnyUser(r) ==
  /\ req[r].pc = "requirePriv"
  /\ UNCHANGED <<users, classes, idp, started, process>>
  /\ \/ RespondFault(r, "Auth check failed")
     \/ IF req[r].session = NoSession
          THEN Respond(r, 401, "Unauthorized")
          ELSE IF UsersByClerkId(req[r].session) = {}
            THEN Respond(r, 403, "Forbidden")
            ELSE req' = [req EXCEPT ![r].pc = HandlerEntry(req[r].kind),
                                    ![r].via = "priv"]

\* requireAdminOrInstructor(req, res, next)
RequireAdminOrInstructor(r) ==
  /\ req[r].pc = "requirePriv"
  /\ UNCHANGED <<users, classes, idp, started, process>>
  /\ \/ RespondFault(r, "Auth check failed")
     \/ IF req[r].session = NoSession
          THEN Respond(r, 401, "Unauthorized")
          ELSE IF ~IsAdminOrInstructor(req[r].session)
            THEN Respond(r, 403, "Forbidden")
            ELSE req' = [req EXCEPT ![r].pc = HandlerEntry(req[r].kind),
                                    ![r].via = "priv"]

\* allowSelfOrPriv, first await: getMe(req), isAdminOrInstructor(me), then the
\* synchronous check of req.params.id
AllowSelfOrPrivMe(r) ==
  /\ req[r].pc = "gateMe"
  /\ UNCHANGED <<users, classes, idp, started, process>>
  /\ \/ RespondFault(r, "Auth check failed")
     \/ IF IsAdminOrInstructor(req[r].session)
          THEN req' = [req EXCEPT ![r].pc = HandlerEntry(req[r].kind),
                                  ![r].via = "priv"]
          ELSE IF ~IsValidObjectId(req[r].id)
            THEN Respond(r, 400, "Invalid ID")
            ELSE Goto(r, "gateTarget")

\* allowSelfOrPriv's second await without the isSelf comparison.
AllowSelfOrPrivTarget_NoSelfCheck(r) ==
  /\ req[r].pc = "gateTarget"
  /\ UNCHANGED <<users, classes, idp, started, process>>
  /\ \/ RespondFault(r, "Auth check failed")
     \/ IF ~UserFound(req[r].id)
          THEN Respond(r, 404, "User not found")
          ELSE req' = [req EXCEPT ![r].pc = HandlerEntry(req[r].kind),
                                  ![r].via = "self"]

\* allowSelfOrPriv, second await: User.findById(paramId), isSelf
AllowSelfOrPrivTarget(r) ==
  /\ req[r].pc = "gateTarget"
  /\ UNCHANGED <<users, classes, idp, started, process>>
  /\ \/ RespondFault(r, "Auth check failed")
     \/ IF ~UserFound(req[r].id)
          THEN Respond(r, 404, "User not found")
          ELSE IF users[req[r].id].clerkId = req[r].session
            THEN req' = [req EXCEPT ![r].pc = HandlerEntry(req[r].kind),
                                    ![r].via = "self"]
            ELSE Respond(r, 403, "Forbidden")

(***************************************************************************)
(* PUT /api/user/:id                                                       *)
(***************************************************************************)
UpdErr == "Failed to update user"

\* isValid(id); await User.findById(id); the email-change test
UpdateFind(r) ==
  /\ At(r, "update", "updFind")
  /\ UNCHANGED <<users, classes, idp, started, process>>
  /\ IF ~IsValidObjectId(req[r].id)
       THEN Respond(r, 400, "Invalid ID")
       ELSE \/ RespondFault(r, UpdErr)
            \/ /\ ~UserFound(req[r].id)
               /\ Respond(r, 404, "User not found")
            \/ /\ UserFound(req[r].id)
               /\ LET u == users[req[r].id]
                      changes == req[r].body.email # Absent
                                   /\ u.email # req[r].body.email
                  IN req' = [req EXCEPT
                       ![r].pc = IF changes THEN "idpAdd" ELSE "updPersist",
                       ![r].orig = [email |-> u.email, clerkId |-> u.clerkId,
                                   enrolledClasses |-> u.enrolledClasses,
                                   oldId |-> 0]]

\* The IdP after createEmailAddress({userId: s, emailAddress: e, primary: true})
\* was accepted: e is listed and primary; an address the subject already lists
\* keeps its object, a new one gets a fresh id.
CreateEmailAddress(s, e) ==
  [idp EXCEPT ![s].emails = @ \cup {e},
              ![s].primary = e,
              ![s].ids[e] = IF e \in idp[s].emails THEN @ ELSE @ + 1]

\* IdpAddEmail that carries on with the email change when the IdP rejects.
IdpAddEmail_IgnoreFailure(r) ==
  /\ At(r, "update", "idpAdd")
  /\ UNCHANGED <<users, classes, started, process>>
  /\ \/ /\ UNCHANGED idp
        /\ Goto(r, "idpGet")
     \/ /\ idp[req[r].orig.clerkId].live
        /\ idp' = CreateEmailAddress(req[r].orig.clerkId, req[r].body.email)
        /\ Goto(r, "idpGet")

\* await clerkClient.emailAddresses.createEmailAddress({userId, emailAddress,
\* verified: true, primary: true})
IdpAddEmail(r) ==
  /\ At(r, "update", "idpAdd")
  /\ UNCHANGED <<users, classes, started, process>>
  /\ \/ /\ RespondFault(r, UpdErr)
        /\ UNCHANGED idp
     \/ /\ idp[req[r].orig.clerkId].live
        /\ idp' = CreateEmailAddress(req[r].orig.clerkId, req[r].body.email)
        /\ Goto(r, "idpGet")

\* IdpGetUser that never finds the old address.
IdpGetUser_SkipDelete(r) ==
  /\ At(r, "update", "idpGet")
  /\ UNCHANGED <<users, classes, idp, started, process>>
  /\ \/ RespondFault(r, UpdErr)
     \/ /\ idp[req[r].orig.clerkId].live
        /\ Goto(r, "updPersist")

\* await clerkClient.users.getUser(clerkId); emailAddresses.find(old email)
IdpGetUser(r) ==
  /\ At(r, "update", "idpGet")
  /\ UNCHANGED <<users, classes, idp, started, process>>
  /\ \/ RespondFault(r, UpdErr)
     \/ /\ idp[req[r].orig.clerkId].live
        /\ IF req[r].orig.email \in idp[req[r].orig.clerkId].emails
             THEN req' = [req EXCEPT
                    ![r].pc = "idpDel",
                    ![r].orig.oldId =
                       idp[req[r].orig.clerkId].ids[req[r].orig.email]]
             ELSE Goto(r, "updPersist")

\* await clerkClient.emailAddresses.deleteEmailAddress(oldEmail.id); a
\* rejection goes to the handler's catch block like every other one, and the
\* IdP rejects the id of an address object that is no longer there.
IdpDeleteEmail(r) ==
  /\ At(r, "update", "idpDel")
  /\ UNCHANGED <<users, classes, started, process>>
  /\ \/ /\ RespondFault(r, UpdErr)
        /\ UNCHANGED idp
     \/ /\ idp[req[r].orig.clerkId].live
        /\ req[r].orig.email \in idp[req[r].orig.clerkId].emails
        /\ idp[req[r].orig.clerkId].ids[req[r].orig.email] = req[r].orig.oldId
        /\ idp' = [idp EXCEPT
                     ![req[r].orig.clerkId].emails = @ \ {req[r].orig.email}]
        /\ Goto(r, "updPersist")

\* await User.findByIdAndUpdate(id, updates, {new: true, runValidators: true});
\* res.status(200).json(updatedUser): the whole body is the update, and a
\* null result (no such document) is answered 200 as well.
UpdatePersist(r) ==
  /\ At(r, "update", "updPersist")
  /\ UNCHANGED <<classes, idp, started, process>>
  /\ \/ /\ RespondFault(r, UpdErr)
        /\ UNCHANGED users
     \/ /\ ~UserFound(req[r].id)
        /\ UNCHANGED users
        /\ Respond(r, 200, "null")
     \/ /\ UserFound(req[r].id)
        /\ LET after == ApplyUpdates(users[req[r].id], req[r].body)
           IN IF \/ ~PrivilegeValid(after.privilege)
                 \/ UniqueIndexRejects(req[r].id, after.email, after.clerkId)
                THEN /\ UNCHANGED users
                     /\ Respond(r, 500, UpdErr)
                ELSE /\ users' = [users EXCEPT ![req[r].id] = after]
                     /\ Respond(r, 200, "user")

(***************************************************************************)
(* DELETE /api/user/:id                                                    *)
(***************************************************************************)
DelErr == "Failed to delete user"

\* isValid(id); await User.findById(id); the roster pulls are all issued at
\* once (Promise.all over deletedUser.enrolledClasses)
DeleteFind(r) ==
  /\ At(r, "delete", "delFind")
  /\ UNCHANGED <<users, classes, idp, started, process>>
  /\ IF ~IsValidObjectId(req[r].id)
       THEN Respond(r, 400, "Invalid ID")
       ELSE \/ RespondFault(r, DelErr)
            \/ /\ ~UserFound(req[r].id)
               /\ Respond(r, 404, "User not found")
            \/ /\ UserFound(req[r].id)
               /\ LET u == users[req[r].id]
                  IN req' = [req EXCEPT
                       ![r].pc = IF u.enrolledClasses = <<>>
                                   THEN "idpDelete" ELSE "delCascade",
                       ![r].pending = Range(u.enrolledClasses),
                       ![r].orig = [email |-> u.email, clerkId |-> u.clerkId,
                                   enrolledClasses |-> u.enrolledClasses,
                                   oldId |-> 0]]

\* DeletePull in which the update of a class that does not exist rejects.
DeletePull_MissingClassRejects(r, c) ==
  /\ req[r].kind = "delete"
  /\ req[r].pc \in {"delCascade", "done"}
  /\ c \in req[r].pending
  /\ UNCHANGED <<users, idp, started, process>>
  /\ \/ /\ UNCHANGED classes
        /\ IF req[r].pc = "delCascade"
             THEN req' = [req EXCEPT ![r].pc = "done", ![r].status = 500,
                                     ![r].message = DelErr,
                                     ![r].dbFault = ClassFound(c),
                                     ![r].pending = @ \ {c}]
             ELSE req' = [req EXCEPT ![r].pending = @ \ {c}]
     \/ /\ ClassFound(c)
        /\ classes' = ClassesAfterPull(c, req[r].id)
        /\ req' = [req EXCEPT
                     ![r].pending = @ \ {c},
                     ![r].pc = IF req[r].pc = "delCascade" /\ req[r].pending = {c}
                                 THEN "idpDelete" ELSE @]

\* One Class.findByIdAndUpdate(classId, {$pull: {roster: id}}) of the cascade
\* settles. A rejection rejects Promise.all: the handler answers 500 at once,
\* while the pulls still outstanding complete on their own.
DeletePull(r, c) ==
  /\ req[r].kind = "delete"
  /\ req[r].pc \in {"delCascade", "done"}
  /\ c \in req[r].pending
  /\ UNCHANGED <<users, idp, started, process>>
  /\ \/ /\ UNCHANGED classes
        /\ IF req[r].pc = "delCascade"
             THEN req' = [req EXCEPT ![r].pc = "done", ![r].status = 500,
                                     ![r].message = DelErr,
                                     ![r].dbFault = TRUE,
                                     ![r].pending = @ \ {c}]
             ELSE req' = [req EXCEPT ![r].pending = @ \ {c}]
     \/ /\ classes' = ClassesAfterPull(c, req[r].id)
        /\ req' = [req EXCEPT
                     ![r].pending = @ \ {c},
                     ![r].pc = IF req[r].pc = "delCascade" /\ req[r].pending = {c}
                                 THEN "idpDelete" ELSE @]

\* IdpDeleteUser that goes on to the local deletion when the IdP rejects.
IdpDeleteUser_IgnoreFailure(r) ==
  /\ At(r, "delete", "idpDelete")
  /\ UNCHANGED <<users, classes, started, process>>
  /\ \/ /\ UNCHANGED idp
        /\ Goto(r, "delLocal")
     \/ /\ idp[req[r].orig.clerkId].live
        /\ idp' = [idp EXCEPT ![req[r].orig.clerkId].live = FALSE]
        /\ Goto(r, "delLocal")

\* await clerkClient.users.deleteUser(deletedUser.clerkId)
IdpDeleteUser(r) ==
  /\ At(r, "delete", "idpDelete")
  /\ UNCHANGED <<users, classes, started, process>>
  /\ \/ /\ RespondFault(r, DelErr)
        /\ UNCHANGED idp
     \/ /\ idp[req[r].orig.clerkId].live
        /\ idp' = [idp EXCEPT ![req[r].orig.clerkId].live = FALSE]
        /\ Goto(r, "delLocal")

\* await User.findByIdAndDelete(id); res.status(204)
DeleteLocal(r) ==
  /\ At(r, "delete", "delLocal")
  /\ UNCHANGED <<classes, idp, started, process>>
  /\ \/ /\ RespondFault(r, DelErr)
        /\ UNCHANGED users
     \/ /\ users' = [users EXCEPT ![req[r].id] =
                       IF UserFound(req[r].id) THEN NoUser("deleted") ELSE @]
        /\ Respond(r, 204, "User deleted successfully")

(***************************************************************************)
(* GET /api/users and GET /api/students-with-classes                       *)
(***************************************************************************)
\* The listing queries: they read the User (and Class) collection only.
ListQuery(r) ==
  /\ req[r].kind \in {"list", "students"}
  /\ req[r].pc = "query"
  /\ UNCHANGED <<users, classes, idp, started, process>>
  /\ \/ RespondFault(r, IF req[r].kind = "list" THEN "Failed to fetch users"
                                               ELSE "Failed to fetch students")
     \/ Respond(r, 200, "items")

(***************************************************************************)
(* GET /api/user                                                           *)
(***************************************************************************)
\* User.findOne(filters): the documents an equality filter on _id and email
\* matches; a filter that is not given matches every document.
Matching(q) ==
  {u \in UserIds : /\ users[u].state = "live"
                   /\ q.id = Absent \/ u = q.id
                   /\ q.email = Absent \/ users[u].email = q.email}

HasFilters(q) == q.id # Absent \/ q.email # Absent

\* await getMe(req); isAdminOrInstructor(me)
GetUserMe(r) ==
  /\ At(r, "getUser", "getMe")
  /\ UNCHANGED <<users, classes, idp, started, process>>
  /\ \/ RespondFault(r, "error")
     \/ req' = [req EXCEPT ![r].pc = "getQuery",
                           ![r].via = IF IsAdminOrInstructor(req[r].session)
                                        THEN "priv" ELSE "self"]

\* GetUserQuery that applies the filters for every caller.
GetUserQuery_FiltersForAll(r) ==
  /\ At(r, "getUser", "getQuery")
  /\ UNCHANGED <<users, classes, idp, started, process>>
  /\ LET byFilter == HasFilters(req[r].query)
         found == IF byFilter THEN Matching(req[r].query)
                              ELSE UsersByClerkId(req[r].session)
     IN \/ RespondFault(r, "error")
        \/ /\ ~(byFilter /\ req[r].query.id = BadId)
           /\ IF found = {}
                THEN Respond(r, 404, "User not found")
                ELSE \E u \in found :
                       req' = [req EXCEPT ![r].pc = "done", ![r].status = 200,
                                          ![r].message = "user",
                                          ![r].result = u]

\* await User.findOne(filters) for a privileged caller who gave filters, else
\* await User.findOne({ clerkId }); 404 for no document, else 200 with it. An
\* _id filter that is no ObjectId makes the query reject (cast error).
GetUserQuery(r) ==
  /\ At(r, "getUser", "getQuery")
  /\ UNCHANGED <<users, classes, idp, started, process>>
  /\ LET byFilter == req[r].via = "priv" /\ HasFilters(req[r].query)
         found == IF byFilter THEN Matching(req[r].query)
                              ELSE UsersByClerkId(req[r].session)
     IN \/ RespondFault(r, "error")
        \/ /\ ~(byFilter /\ req[r].query.id = BadId)
           /\ IF found = {}
                THEN Respond(r, 404, "User not found")
                ELSE \E u \in found :
                       req' = [req EXCEPT ![r].pc = "done", ![r].status = 200,
                                          ![r].message = "user",
                                          ![r].result = u]

(***************************************************************************)
(* POST /api/sign-up                                                       *)
(***************************************************************************)
SignUpErr == "Failed to sign up"

\* the required-field check; await User.findOne({ email })
SignUpFind(r) ==
  /\ At(r, "signUp", "suFind")
  /\ UNCHANGED <<users, classes, idp, started, process>>
  /\ IF ~req[r].body.complete
       THEN Respond(r, 400, "Missing required fields")
       ELSE \/ RespondFault(r, SignUpErr)
            \/ IF EmailFound(req[r].body.email)
                 THEN Respond(r, 409, "Email already exists")
                 ELSE Goto(r, "suSave")

\* await new User({...}).save(); res.status(201). A duplicate-key rejection is
\* caught like any other error and answered 500. The new document gets the
\* schema's default privilege, student.
SignUpSave(r) ==
  /\ At(r, "signUp", "suSave")
  /\ UNCHANGED <<classes, idp, started, process>>
  /\ \/ /\ RespondFault(r, SignUpErr)
        /\ UNCHANGED users
     \/ /\ UniqueIndexRejects("none", req[r].body.email, req[r].body.clerkId)
        /\ UNCHANGED users
        /\ Respond(r, 500, SignUpErr)
     \/ /\ ~UniqueIndexRejects("none", req[r].body.email, req[r].body.clerkId)
        /\ FreeIds # {}
        /\ users' = [users EXCEPT ![NewId] =
                       LiveUser(req[r].body.clerkId, req[r].body.email,
                                "student", <<>>)]
        /\ req' = [req EXCEPT ![r].pc = "done", ![r].status = 201,
                              ![r].message = "user", ![r].id = NewId]

(***************************************************************************)
(* Requests of the user routes                                             *)
(***************************************************************************)
Sessions == Subjects \cup {NoSession}

\* PUT /api/user/:id with a body that changes no email, DELETE /api/user/:id,
\* GET /api/users, GET /api/students-with-classes
StartUser(r) ==
  /\ CanStart(r)
  /\ started' = started + 1
  /\ UNCHANGED <<users, classes, idp, process>>
  /\ \E s \in Sessions :
       \/ \E id \in ParamIds, p \in {Absent, "admin", "student"} :
            req' = [req EXCEPT ![r] =
                      [Idle EXCEPT !.kind = "update", !.pc = "auth",
                                   !.session = s, !.id = id,
                                   !.body = [NoBody EXCEPT !.privilege = p]]]
       \/ \E id \in ParamIds :
            req' = [req EXCEPT ![r] =
                      [Idle EXCEPT !.kind = "delete", !.pc = "auth",
                                   !.session = s, !.id = id]]
       \/ \E k \in {"list", "students"} :
            req' = [req EXCEPT ![r] =
                      [Idle EXCEPT !.kind = k, !.pc = "auth", !.session = s]]

\* POST /api/sign-up (public) and PUT /api/user/:id with an email in the body
StartEmail(r) ==
  /\ CanStart(r)
  /\ started' = started + 1
  /\ UNCHANGED <<users, classes, idp, process>>
  /\ \/ \E e \in {"e2", "e3"}, ok \in BOOLEAN :
          req' = [req EXCEPT ![r] =
                    [Idle EXCEPT !.kind = "signUp", !.pc = "suFind",
                                 !.body = [NoBody EXCEPT !.email = e,
                                                         !.clerkId = "s3",
                                                         !.complete = ok]]]
     \/ \E s \in {"s1", "s2"}, id \in {"u1", "u2", "u3"}, e \in Emails :
          req' = [req EXCEPT ![r] =
                    [Idle EXCEPT !.kind = "update", !.pc = "auth",
                                 !.session = s, !.id = id,
                                 !.body = [NoBody EXCEPT !.email = e]]]

(***************************************************************************)
(* Specifications                                                          *)
(***************************************************************************)
\* A process that has served no request yet: no connection and no dial, empty
\* limiter stores, MONGODB_URI set, one origin on the CORS allowlist.
InitProcess ==
  /\ cached = [conn |-> 0, promise |-> 0]
  /\ dials = <<>>
  /\ hits = [l \in Limiters |-> [a \in Addrs |-> 0]]
  /\ env = [MONGODB_URI |-> TRUE, ALLOWED_ORIGINS |-> {"app"}]

\* Every local user has an IdP account holding the user's email. An address
\* object of the IdP has an id of its own: ids[e] counts the objects created
\* so far for the address e, and the object now listed for e is the last one.
InitIdp ==
  idp = [s \in Subjects |->
           [live |-> TRUE,
            emails |-> {IF s = "s1" THEN "e1" ELSE IF s = "s2" THEN "e2" ELSE "e3"},
            primary |-> IF s = "s1" THEN "e1" ELSE IF s = "s2" THEN "e2" ELSE "e3",
            ids |-> [e \in Emails \cup FreshEmails |->
                       IF e = (IF s = "s1" THEN "e1"
                               ELSE IF s = "s2" THEN "e2" ELSE "e3")
                         THEN 1 ELSE 0]]]

\* Students u1, u2 and classes c1, c2 with nobody enrolled yet; each class is
\* open or closed for enrollment.
InitRoster ==
  /\ users = [u \in UserIds |->
                IF u = "u1" THEN LiveUser("s1", "e1", "student", <<>>)
                ELSE IF u = "u2" THEN LiveUser("s2", "e2", "student", <<>>)
                ELSE NoUser("free")]
  /\ InitIdp
  /\ \E open \in [ClassIds -> BOOLEAN] :
       classes = [c \in ClassIds |-> [exists |-> TRUE,
                                      isEnrollmentOpen |-> open[c],
                                      roster |-> <<>>]]
  /\ req = [r \in Slots |-> Idle]
  /\ started = 0
  /\ InitProcess

RosterStep(r) ==
  \/ StartRoster(r)
  \/ EnrollFindUser(r)
  \/ EnrollFindClass(r)
  \/ EnrollAddUser(r)
  \/ EnrollAddRoster(r)
  \/ UnenrollFindUser(r)
  \/ UnenrollPullUser(r)
  \/ UnenrollPullRoster(r)
  \/ Retire(r)

NextRoster == \E r \in Slots : RosterStep(r)

\* Enroll and unenroll requests only, any interleaving, any store fault.
SpecRoster == InitRoster /\ [][NextRoster]_vars

ClassRouterStep ==
  \E c \in ClassIds :
    \/ \E b \in BOOLEAN : SetEnrollmentOpen(c, b)
    \/ DeleteClass(c)

NextRosterEnv == NextRoster \/ ClassRouterStep

\* The same, with the class router editing classes concurrently.
SpecRosterEnv == InitRoster /\ [][NextRosterEnv]_vars

\* An admin u1 and a student u2 enrolled in class c1.
InitUser ==
  /\ users = [u \in UserIds |->
                IF u = "u1" THEN LiveUser("s1", "e1", "admin", <<>>)
                ELSE IF u = "u2" THEN LiveUser("s2", "e2", "student", <<"c1">>)
                ELSE NoUser("free")]
  /\ classes = [c \in ClassIds |->
                  [exists |-> TRUE, isEnrollmentOpen |-> TRUE,
                   roster |-> IF c = "c1" THEN <<"u2">> ELSE <<>>]]
  /\ InitIdp
  /\ req = [r \in Slots |-> Idle]
  /\ started = 0
  /\ InitProcess

UserStep(r) ==
  \/ StartUser(r)
  \/ RequireAuth(r)
  \/ RequireAdminOrInstructor(r)
  \/ AllowSelfOrPrivMe(r)
  \/ AllowSelfOrPrivTarget(r)
  \/ UpdateFind(r)
  \/ UpdatePersist(r)
  \/ DeleteFind(r)
  \/ \E c \in ClassIds : DeletePull(r, c)
  \/ IdpDeleteUser(r)
  \/ DeleteLocal(r)
  \/ ListQuery(r)
  \/ Retire(r)

NextUser == \E r \in Slots : UserStep(r)

\* The gated user routes: update (privilege), delete, the two listings.
SpecUser == InitUser /\ [][NextUser]_vars

EmailStep(r) ==
  \/ StartEmail(r)
  \/ SignUpFind(r)
  \/ SignUpSave(r)
  \/ RequireAuth(r)
  \/ AllowSelfOrPrivMe(r)
  \/ AllowSelfOrPrivTarget(r)
  \/ UpdateFind(r)
  \/ IdpAddEmail(r)
  \/ IdpGetUser(r)
  \/ IdpDeleteEmail(r)
  \/ UpdatePersist(r)
  \/ Retire(r)

NextEmail == \E r \in Slots : EmailStep(r)

\* Sign-up and email changes, any interleaving, any store or IdP fault.
SpecEmail == InitUser /\ [][NextEmail]_vars

(***************************************************************************)
(* Properties: roster integrity                                            *)
(***************************************************************************)
\* No handler is between two awaits.
Quiescent == \A r \in Slots : req[r].pc \in {"idle", "done"}

\* Request r takes the step (every step changes exactly its own slot).
Steps(r) == req'[r] # req[r]

StoresUnchanged == users' = users /\ classes' = classes

Enrolled(u, c) == UserFound(u) /\ Includes(users[u].enrolledClasses, c)
OnRoster(u, c) == ClassFound(c) /\ Includes(classes[c].roster, u)

ClosedMsg == "Enrollment is currently closed for this class."

\* C1: whenever no enroll or unenroll request is in flight, class c is in
\* u.enrolledClasses exactly if u is in c.roster, for every user u and class c,
\* also after requests that failed at one of their store writes.
C1_RosterBidirectional ==
  Quiescent => \A u \in UserIds, c \in ClassIds : Enrolled(u, c) <=> OnRoster(u, c)

\* C3: a step of an enroll or unenroll request that carries no IdP session
\* changes no user's enrolledClasses and no class's roster.
C3_RosterWritesNeedSession ==
  [][\A r \in Slots :
       (req[r].kind \in {"enroll", "unenroll"} /\ req[r].session = NoSession
          /\ Steps(r))
       => StoresUnchanged]_vars

\* C8: whenever a step of an enroll request writes to a user's enrolledClasses
\* or to a class's roster, the target class exists and is open for enrollment
\* at that moment.
C8_EnrollWritesOnlyWhenOpen ==
  [][\A r \in Slots :
       (req[r].kind = "enroll" /\ Steps(r) /\ ~StoresUnchanged)
       => (ClassFound(req[r].classId)
             /\ classes[req[r].classId].isEnrollmentOpen)]_vars

C10_EnrollCompensates ==
  [][\A r \in Slots :
       (At(r, "enroll", "addRoster") /\ Steps(r) /\ req'[r].dbFault
          /\ req[r].id \in UserIds)
       => ~Includes(users'[req[r].id].enrolledClasses, req[r].classId)]_vars

(***************************************************************************)
(* Properties: gates and the user store                                    *)
(***************************************************************************)
AllStoresUnchanged == users' = users /\ classes' = classes /\ idp' = idp

\* The positions inside the handlers behind the gates.
PrivHandlerPcs == {"delFind", "delCascade", "idpDelete", "delLocal", "query"}
UpdateHandlerPcs == {"updFind", "idpAdd", "idpGet", "idpDel", "updPersist"}

IsSelf(r) == UserFound(req[r].id) /\ users[req[r].id].clerkId = req[r].session

\* C2: no step of a PUT /api/user/:id request that was admitted through the
\* self branch of the gate changes the target user's privilege.
C2_SelfUpdateKeepsPrivilege ==
  [][\A r \in Slots :
       (req[r].kind = "update" /\ req[r].via = "self" /\ Steps(r)
          /\ req[r].id \in UserIds)
       => users'[req[r].id].privilege = users[req[r].id].privilege]_vars

\* C4: behind requireAuth, requireAdminOrInstructor (whose role lookup
\* succeeds) passes the request on to its handler exactly if the local user
\* with the caller's subject id is admin or instructor, and otherwise answers
\* 403 Forbidden; the handlers of DELETE /user/:id, GET /users and GET
\* /students-with-classes are entered only through a passing gate, and no step
\* before the handler changes the stores or the IdP.
C4_RequirePrivilegedGate ==
  [][\A r \in Slots :
       (req[r].kind \in PrivKinds /\ Steps(r))
       => LET priv == IsAdminOrInstructor(req[r].session)
          IN /\ (req[r].pc = "requirePriv" /\ ~req'[r].dbFault)
                  => IF priv
                       THEN req'[r].pc = HandlerEntry(req[r].kind)
                       ELSE /\ req'[r].pc = "done"
                            /\ req'[r].status = 403
                            /\ req'[r].message = "Forbidden"
             /\ (req'[r].pc \in PrivHandlerPcs /\ req[r].pc \notin PrivHandlerPcs)
                  => (req[r].pc = "requirePriv" /\ priv)
             /\ (req[r].pc \notin PrivHandlerPcs /\ req[r].pending = {})
                  => AllStoresUnchanged]_vars

\* C4 witness: a student's request refused 403 by the gate while an admin's
\* request has been passed and answered by its handler.
C4_Witness ==
  \E r, q \in Slots :
    /\ req[r].kind \in PrivKinds /\ req[r].pc = "done"
    /\ req[r].status = 403 /\ req[r].session = "s2"
    /\ req[q].kind \in PrivKinds /\ req[q].pc = "done"
    /\ req[q].status \in {200, 204} /\ req[q].session = "s1"

\* C5: allowSelfOrPriv (whose lookups succeed) passes exactly if the caller
\* is admin or instructor or the target user's clerkId is the caller's
\* subject id; a caller who is not privileged is answered 400 for a malformed
\* id, 404 when no user has the id and 403 otherwise; the update handler is
\* entered only through a passing gate and no gate step changes the stores.
C5_AllowSelfOrPrivGate ==
  [][\A r \in Slots :
       (req[r].kind = "update" /\ Steps(r))
       => LET priv == IsAdminOrInstructor(req[r].session)
          IN /\ (req[r].pc = "gateMe" /\ ~req'[r].dbFault)
                  => IF priv
                       THEN req'[r].pc = "updFind"
                       ELSE IF ~IsValidObjectId(req[r].id)
                         THEN req'[r].pc = "done" /\ req'[r].status = 400
                         ELSE req'[r].pc = "gateTarget"
             /\ (req[r].pc = "gateTarget" /\ ~req'[r].dbFault)
                  => IF ~UserFound(req[r].id)
                       THEN req'[r].pc = "done" /\ req'[r].status = 404
                       ELSE IF IsSelf(r)
                         THEN req'[r].pc = "updFind"
                         ELSE /\ req'[r].pc = "done"
                              /\ req'[r].status = 403
                              /\ req'[r].message = "Forbidden"
             /\ (req'[r].pc \in UpdateHandlerPcs
                   /\ req[r].pc \notin UpdateHandlerPcs)
                  => \/ req[r].pc = "gateMe" /\ priv
                     \/ req[r].pc = "gateTarget" /\ IsSelf(r)
             /\ req[r].pc \notin UpdateHandlerPcs => AllStoresUnchanged]_vars

\* C5 witness: a student's update of another user refused 403 while a
\* student's update of the own record has been admitted and answered 200.
C5_Witness ==
  \E r, q \in Slots :
    /\ At(r, "update", "done") /\ req[r].status = 403
    /\ req[r].session = "s2" /\ req[r].id = "u1"
    /\ At(q, "update", "done") /\ req[q].status = 200
    /\ req[q].via = "self"

\* C6: of two answered sign-up requests carrying the same email (all fields
\* present, no store fault), when one created a user and answered 201 the
\* other answered 409.
C6_SameEmailSecondGets409 ==
  \A r, q \in Slots :
    (/\ r # q
     /\ At(r, "signUp", "done") /\ At(q, "signUp", "done")
     /\ req[r].body.email = req[q].body.email
     /\ req[r].body.complete /\ req[q].body.complete
     /\ ~req[r].dbFault /\ ~req[q].dbFault
     /\ req[r].status = 201)
    => req[q].status = 409

\* C7: no two user records have the same email.
C7_EmailUnique ==
  \A u, v \in UserIds :
    (u # v /\ users[u].state = "live" /\ users[v].state = "live")
    => users[u].email # users[v].email

\* C7 witness: a sign-up or an update whose write the store rejected for a
\* duplicate key, the email being held by another record.
C7_Witness ==
  \E r \in Slots :
    /\ req[r].kind \in {"signUp", "update"}
    /\ req[r].pc = "done" /\ req[r].status = 500 /\ ~req[r].dbFault
    /\ EmailFound(req[r].body.email)

(***************************************************************************)
(* Properties: repeated enroll / unenroll calls                            *)
(***************************************************************************)
\* Student u1 is enrolled in class c1 (on both sides) or in no class.
InitRepeat ==
  /\ \E enrolled \in BOOLEAN :
       /\ users = [u \in UserIds |->
                     IF u = "u1"
                       THEN LiveUser("s1", "e1", "student",
                                     IF enrolled THEN <<"c1">> ELSE <<>>)
                     ELSE IF u = "u2" THEN LiveUser("s2", "e2", "student", <<>>)
                     ELSE NoUser("free")]
       /\ \E open \in [ClassIds -> BOOLEAN] :
            classes = [c \in ClassIds |->
                         [exists |-> TRUE, isEnrollmentOpen |-> open[c],
                          roster |-> IF enrolled /\ c = "c1"
                                       THEN <<"u1">> ELSE <<>>]]
  /\ InitIdp
  /\ req = [r \in Slots |-> Idle]
  /\ started = 0
  /\ InitProcess

\* A client that makes its calls one after the other: the next request is
\* sent when every earlier one has been answered.
StartRepeat(r) ==
  /\ \A q \in Slots : req[q].pc \in {"idle", "done"}
  /\ StartRoster(r)

RepeatStep(r) ==
  \/ StartRepeat(r)
  \/ EnrollFindUser(r)
  \/ EnrollFindClass(r)
  \/ EnrollAddUser(r)
  \/ EnrollAddRoster(r)
  \/ UnenrollFindUser(r)
  \/ UnenrollPullUser(r)
  \/ UnenrollPullRoster(r)
  \/ Retire(r)

NextRepeat == \E r \in Slots : RepeatStep(r)

\* Enroll and unenroll calls made one after the other, any store fault.
SpecRepeat == InitRepeat /\ [][NextRepeat]_vars

\* The number of times x occurs in a stored array.
Count(arr, x) == Cardinality({i \in 1..Len(arr) : arr[i] = x})

SameCall(r, q) ==
  /\ req[q].kind = req[r].kind
  /\ req[q].id = req[r].id
  /\ req[q].classId = req[r].classId

\* Request r was the first call and answered 201; q is the next call, with
\* the same arguments, and nothing else has been called.
RepeatOf(r, q) ==
  /\ r # q
  /\ started = 2
  /\ req[r].kind \in {"enroll", "unenroll"}
  /\ req[r].pc = "done" /\ req[r].status = 201
  /\ SameCall(r, q)
  /\ req[q].pc # "done"

\* C11: when an enroll (unenroll) call answered 201 and the same call is
\* made again right after it, the second call (unless a store operation of it
\* fails) answers 400 "Already enrolled in this class" ("Not enrolled in this
\* class") and no step of it changes the stores; after the enroll the user's
\* id is on the roster exactly once and the class in enrolledClasses exactly
\* once, also after the second call.
C11_RepeatIsNoOp ==
  /\ [][\A r, q \in Slots :
          (RepeatOf(r, q) /\ Steps(q))
          => /\ StoresUnchanged
             /\ \/ req'[q].dbFault
                \/ /\ req'[q].pc = "done"
                   /\ req'[q].status = 400
                   /\ req'[q].message =
                        IF req[q].kind = "enroll"
                          THEN "Already enrolled in this class"
                          ELSE "Not enrolled in this class"]_vars
  /\ [](\A r \in Slots :
          (/\ At(r, "enroll", "done") /\ req[r].status = 201
           /\ \/ started = 1
              \/ started = 2 /\ \E q \in Slots \ {r} : SameCall(r, q))
          => /\ Count(classes[req[r].classId].roster, req[r].id) = 1
             /\ Count(users[req[r].id].enrolledClasses, req[r].classId) = 1)

\* C11 witness: an enroll answered 201 and its repetition answered 400, the
\* user on the roster once.
C11_Witness ==
  \E r, q \in Slots :
    /\ r # q /\ started = 2
    /\ At(r, "enroll", "done") /\ req[r].status = 201
    /\ At(q, "enroll", "done") /\ SameCall(r, q)
    /\ req[q].status = 400
    /\ req[q].message = "Already enrolled in this class"
    /\ Count(classes[req[r].classId].roster, req[r].id) = 1

(***************************************************************************)
(* Properties: user deletion                                               *)
(***************************************************************************)
\* C12: a local user record is removed only by the last step of a delete
\* request, which is reached only through a successful deletion of the
\* record's IdP subject, so that the subject is gone when the record is
\* removed; when the IdP deletion fails the request is answered 500 at that
\* step, takes no further step of the handler, and the record is still there.
C12_IdpDeletedBeforeLocal ==
  [][/\ \A u \in UserIds :
          (users[u].state = "live" /\ users'[u].state # "live")
          => /\ ~idp[users[u].clerkId].live
             /\ \E r \in Slots :
                  /\ At(r, "delete", "delLocal") /\ Steps(r)
                  /\ req[r].id = u
                  /\ req[r].orig.clerkId = users[u].clerkId
     /\ \A r \in Slots :
          (req[r].kind = "delete" /\ Steps(r))
          => /\ (req'[r].pc = "delLocal")
                  => /\ req[r].pc = "idpDelete"
                     /\ idp[req[r].orig.clerkId].live
                     /\ ~idp'[req[r].orig.clerkId].live
             /\ (req[r].pc = "idpDelete" /\ req'[r].dbFault)
                  => /\ req'[r].pc = "done" /\ req'[r].status = 500
                     /\ users' = users /\ idp' = idp
             /\ req[r].pc # "delLocal" => users' = users]_vars

\* C12 witness: a delete request answered 204, the record and its IdP subject
\* gone, beside a delete request of a user without classes that was aborted
\* at the IdP deletion, the record and the subject both still there.
C12_Witness ==
  \E r, q \in Slots :
    /\ At(r, "delete", "done") /\ req[r].status = 204
    /\ req[r].id = "u2" /\ users["u2"].state = "deleted" /\ ~idp["s2"].live
    /\ At(q, "delete", "done") /\ req[q].status = 500 /\ req[q].dbFault
    /\ req[q].id = "u1" /\ req[q].orig.clerkId = "s1"
    /\ UserFound("u1") /\ idp["s1"].live

\* DELETE /api/user/:id by the admin or the student beside enroll and
\* unenroll requests for student u2
StartCascade(r) ==
  /\ CanStart(r)
  /\ started' = started + 1
  /\ UNCHANGED <<users, classes, idp, process>>
  /\ \/ \E s \in {"s1", "s2"} :
          req' = [req EXCEPT ![r] =
                    [Idle EXCEPT !.kind = "delete", !.pc = "auth",
                                 !.session = s, !.id = "u2"]]
     \/ \E k \in {"enroll", "unenroll"}, c \in ClassIds :
          req' = [req EXCEPT ![r] =
                    [Idle EXCEPT !.kind = k, !.pc = "findUser",
                                 !.id = "u2", !.classId = c]]

CascadeStep(r) ==
  \/ StartCascade(r)
  \/ RequireAuth(r)
  \/ RequireAdminOrInstructor(r)
  \/ DeleteFind(r)
  \/ \E c \in ClassIds : DeletePull(r, c)
  \/ IdpDeleteUser(r)
  \/ DeleteLocal(r)
  \/ EnrollFindUser(r)
  \/ EnrollFindClass(r)
  \/ EnrollAddUser(r)
  \/ EnrollAddRoster(r)
  \/ UnenrollFindUser(r)
  \/ UnenrollPullUser(r)
  \/ UnenrollPullRoster(r)
  \/ Retire(r)

NextCascade == \E r \in Slots : CascadeStep(r)

\* User deletion beside enroll and unenroll, any interleaving, any fault.
SpecCascade == InitUser /\ [][NextCascade]_vars

ChangesEmail(r) ==
  /\ req[r].kind = "update"
  /\ req[r].orig.clerkId # "none"
  /\ req[r].body.email # Absent
  /\ req[r].body.email # req[r].orig.email

\* C14: when the IdP rejects the addition of the new address (the step fails,
\* or leaves the subject without the address), the update request is
\* answered 500 at that step, the step changes neither a user
\* record nor the IdP, and the request takes no further step that does.
C14_AddFailureLeavesAllUnchanged ==
  [][\A r \in Slots :
       (req[r].kind = "update" /\ Steps(r))
       => /\ (/\ req[r].pc = "idpAdd"
               /\ \/ req'[r].dbFault
                  \/ req[r].body.email \notin idp'[req[r].orig.clerkId].emails)
               => /\ req'[r].pc = "done" /\ req'[r].status = 500
                  /\ AllStoresUnchanged
          /\ req[r].pc = "done" => AllStoresUnchanged]_vars

\* C14 witness: an email change answered 500, the new address not at the IdP,
\* the old one still there and the record's email the old one.
C14_Witness ==
  \E r \in Slots :
    /\ ChangesEmail(r) /\ req[r].pc = "done"
    /\ req[r].status = 500 /\ req[r].dbFault
    /\ req[r].body.email \notin idp[req[r].orig.clerkId].emails
    /\ req[r].orig.email \in idp[req[r].orig.clerkId].emails
    /\ users[req[r].id].email = req[r].orig.email

\* A client that sends the next sign-up or update when every earlier request
\* has been answered.
StartEmailSeq(r) ==
  /\ \A q \in Slots : req[q].pc \in {"idle", "done"}
  /\ StartEmail(r)

EmailSeqStep(r) ==
  \/ StartEmailSeq(r)
  \/ SignUpFind(r)
  \/ SignUpSave(r)
  \/ RequireAuth(r)
  \/ AllowSelfOrPrivMe(r)
  \/ AllowSelfOrPrivTarget(r)
  \/ UpdateFind(r)
  \/ IdpAddEmail(r)
  \/ IdpGetUser(r)
  \/ IdpDeleteEmail(r)
  \/ UpdatePersist(r)
  \/ Retire(r)

NextEmailSeq == \E r \in Slots : EmailSeqStep(r)

\* Sign-ups and email changes made one after the other, any fault.
SpecEmailSeq == InitUser /\ [][NextEmailSeq]_vars

\* C15: an update whose body carries an email different from the stored one
\* goes from the lookup to the IdP addition, then to the read-back, then (when
\* the old address is found) to its deletion, and only then to the local
\* update; no earlier step changes a user record; and when the request is
\* answered 200 the IdP subject holds the new address as primary and no
\* longer the old one, and the local email is the new address.
C15_EmailChangeOrderAndOutcome ==
  [][\A r \in Slots :
       (req[r].kind = "update" /\ Steps(r))
       => LET sub == req[r].orig.clerkId
              old == req[r].orig.email
              new == req[r].body.email
          IN /\ (/\ req[r].pc = "updFind" /\ ~req'[r].dbFault
                 /\ UserFound(req[r].id)
                 /\ new # Absent /\ new # users[req[r].id].email)
                  => req'[r].pc = "idpAdd"
             /\ req'[r].pc = "idpGet"
                  => /\ req[r].pc = "idpAdd"
                     /\ new \in idp'[sub].emails /\ idp'[sub].primary = new
             /\ req'[r].pc = "idpDel"
                  => req[r].pc = "idpGet" /\ old \in idp[sub].emails
             /\ (req'[r].pc = "updPersist" /\ ChangesEmail(r))
                  => /\ req[r].pc \in {"idpGet", "idpDel"}
                     /\ old \notin idp'[sub].emails
             /\ req[r].pc # "updPersist" => users' = users
             /\ (ChangesEmail(r) /\ req'[r].pc = "done" /\ req'[r].status = 200)
                  => /\ req[r].pc = "updPersist"
                     /\ new \in idp'[sub].emails /\ idp'[sub].primary = new
                     /\ old \notin idp'[sub].emails
                     /\ users'[req[r].id].email = new]_vars

\* C15 witness: an email change answered 200 with the IdP and the record
\* both at the new address.
C15_Witness ==
  \E r \in Slots :
    /\ ChangesEmail(r) /\ req[r].pc = "done" /\ req[r].status = 200
    /\ idp[req[r].orig.clerkId].primary = req[r].body.email
    /\ req[r].orig.email \notin idp[req[r].orig.clerkId].emails
    /\ users[req[r].id].email = req[r].body.email

\* C16: in every state in which no update request is in flight, the local
\* email of a user whose email a request set out to change (whatever step of
\* that request failed) is one of the addresses the IdP holds for the user's
\* subject.
C16_LocalEmailHeldByIdp ==
  (\A q \in Slots : req[q].kind = "update" => req[q].pc = "done")
  => \A r \in Slots :
       (ChangesEmail(r) /\ UserFound(req[r].id))
       => users[req[r].id].email \in idp[users[req[r].id].clerkId].emails

(***************************************************************************)
(* Properties: the IdP link                                                *)
(***************************************************************************)
\* C17: in every state in which no delete request is in flight, every local
\* user's clerkId is the clerkId of no other local user and is the id of a
\* live IdP subject.
C17_ClerkIdUniqueAndLive ==
  (\A q \in Slots :
     req[q].kind = "delete" => (req[q].pc = "done" /\ req[q].pending = {}))
  => \A u \in UserIds :
       users[u].state = "live"
       => /\ idp[users[u].clerkId].live
          /\ \A v \in UserIds \ {u} :
               users[v].state = "live" => users[v].clerkId # users[u].clerkId

\* PUT /api/user/:id with a body that names clerkId or enrolledClasses, POST
\* /api/sign-up, and the two listings
StartFields(r) ==
  /\ CanStart(r)
  /\ started' = started + 1
  /\ UNCHANGED <<users, classes, idp, process>>
  /\ \/ \E s \in {"s1", "s2"}, id \in {"u1", "u2"}, c \in {Absent, "s3"},
          cs \in {AbsentList, <<>>, <<"c2">>} :
          req' = [req EXCEPT ![r] =
                    [Idle EXCEPT !.kind = "update", !.pc = "auth",
                                 !.session = s, !.id = id,
                                 !.body = [NoBody EXCEPT !.clerkId = c,
                                                         !.enrolledClasses = cs]]]
     \/ \E ok \in BOOLEAN :
          req' = [req EXCEPT ![r] =
                    [Idle EXCEPT !.kind = "signUp", !.pc = "suFind",
                                 !.body = [NoBody EXCEPT !.email = "e3",
                                                         !.clerkId = "s3",
                                                         !.complete = ok]]]
     \/ \E s \in {"s1", "s2"}, k \in {"list", "students"} :
          req' = [req EXCEPT ![r] =
                    [Idle EXCEPT !.kind = k, !.pc = "auth", !.session = s]]

FieldsStep(r) ==
  \/ StartFields(r)
  \/ SignUpFind(r)
  \/ SignUpSave(r)
  \/ RequireAuth(r)
  \/ RequireAdminOrInstructor(r)
  \/ AllowSelfOrPrivMe(r)
  \/ AllowSelfOrPrivTarget(r)
  \/ UpdateFind(r)
  \/ UpdatePersist(r)
  \/ ListQuery(r)
  \/ Retire(r)

NextFields == \E r \in Slots : FieldsStep(r)

\* Updates with arbitrary bodies beside sign-ups and listings.
SpecFields == InitUser /\ [][NextFields]_vars

\* C18: no step changes the clerkId of an existing user record (the id is the
\* record's key in the store).
C18_ClerkIdImmutable ==
  [][\A u \in UserIds :
       (users[u].state = "live" /\ users'[u].state = "live")
       => users'[u].clerkId = users[u].clerkId]_vars

(***************************************************************************)
(* Properties: enrollment edges                                            *)
(***************************************************************************)
\* C19: no step of a sign-up, an update or a listing request changes a user's
\* enrolledClasses or a class's roster.
C19_OnlyRosterOpsChangeEdges ==
  [][\A r \in Slots :
       (req[r].kind \in {"signUp", "update", "list", "students"} /\ Steps(r))
       => /\ \A u \in UserIds :
               users'[u].enrolledClasses = users[u].enrolledClasses
          /\ \A c \in ClassIds : classes'[c].roster = classes[c].roster]_vars

(***************************************************************************)
(* Properties: GET /api/user                                               *)
(***************************************************************************)
\* GET /api/user with any session and any filters, beside updates of a
\* user's privilege by the admin or by the student
StartGetUser(r) ==
  /\ CanStart(r)
  /\ started' = started + 1
  /\ UNCHANGED <<users, classes, idp, process>>
  /\ \/ \E s \in Sessions, id \in {Absent, "u1", "u2", BadId},
          e \in {Absent, "e1"} :
          req' = [req EXCEPT ![r] =
                    [Idle EXCEPT !.kind = "getUser", !.pc = "auth",
                                 !.session = s,
                                 !.query = [id |-> id, email |-> e]]]
     \/ \E s \in {"s1", "s2"}, id \in {"u1", "u2"}, p \in {"admin", "student"} :
          req' = [req EXCEPT ![r] =
                    [Idle EXCEPT !.kind = "update", !.pc = "auth",
                                 !.session = s, !.id = id,
                                 !.body = [NoBody EXCEPT !.privilege = p]]]

GetUserStep(r) ==
  \/ StartGetUser(r)
  \/ RequireAuth(r)
  \/ GetUserMe(r)
  \/ GetUserQuery(r)
  \/ AllowSelfOrPrivMe(r)
  \/ AllowSelfOrPrivTarget(r)
  \/ UpdateFind(r)
  \/ UpdatePersist(r)
  \/ Retire(r)

NextGetUser == \E r \in Slots : GetUserStep(r)

\* GET /api/user beside privilege updates, any interleaving, any fault.
SpecGetUser == InitUser /\ [][NextGetUser]_vars

\* C20: GET /api/user treats the caller as privileged only if the local user
\* with the caller's subject id is admin or instructor when the handler looks
\* it up; for every other caller with a session, whatever filters the query
\* gives and whatever other records the store holds, the answer (unless a
\* lookup fails) is 200 with a record whose clerkId is the caller's subject
\* id, or 404 when there is none; without a session the answer is 401; no
\* step of the request changes the stores.
C20_GetUserOwnRecordOnly ==
  [][\A r \in Slots :
       (req[r].kind = "getUser" /\ Steps(r))
       => /\ AllStoresUnchanged
          /\ req'[r].pc \in {"getMe", "getQuery"} => req[r].session # NoSession
          /\ (req[r].pc = "getMe" /\ req'[r].via = "priv")
               => IsAdminOrInstructor(req[r].session)
          /\ req[r].pc \notin {"getMe", "done"} => req'[r].via = req[r].via
          /\ (req[r].pc = "getQuery" /\ req[r].via # "priv" /\ ~req'[r].dbFault)
               => /\ req'[r].pc = "done"
                  /\ IF UsersByClerkId(req[r].session) = {}
                       THEN req'[r].status = 404 /\ req'[r].result = "none"
                       ELSE /\ req'[r].status = 200
                            /\ req'[r].result \in UsersByClerkId(req[r].session)
          /\ req'[r].result # "none" => req[r].pc = "getQuery"]_vars

\* C20 witness: the student asked for the admin's record by _id and was
\* answered the own record, beside the admin who was answered by the filter.
C20_Witness ==
  \E r, q \in Slots :
    /\ At(r, "getUser", "done") /\ req[r].session = "s2"
    /\ req[r].query.id = "u1" /\ req[r].via = "self"
    /\ req[r].status = 200 /\ req[r].result = "u2"
    /\ At(q, "getUser", "done") /\ req[q].session = "s1"
    /\ req[q].query.id = "u2" /\ req[q].via = "priv"
    /\ req[q].status = 200 /\ req[q].result = "u2"

(***************************************************************************)
(* Properties: concurrent enrolls                                          *)
(***************************************************************************)
\* C29: in every reachable state, whatever enroll and unenroll requests
\* interleave, no class roster holds a user id more than once and no user's
\* enrolledClasses holds a class id more than once.
C29_AtMostOnce ==
  \A u \in UserIds, c \in ClassIds :
    /\ Count(classes[c].roster, u) <= 1
    /\ Count(users[u].enrolledClasses, c) <= 1

\* C29 witness: two enroll requests for the same user and class that both
\* passed the already-enrolled check and both answered 201.
C29_Witness ==
  \E r, q \in Slots :
    /\ r # q
    /\ At(r, "enroll", "done") /\ req[r].status = 201
    /\ At(q, "enroll", "done") /\ req[q].status = 201
    /\ SameCall(r, q)
    /\ Count(classes[req[r].classId].roster, req[r].id) = 1

(***************************************************************************)
(* Properties: the IdP subject's addresses during email changes            *)
(***************************************************************************)
\* The number of requests of a behaviour of three interleaved email changes.
RaceRequests == MaxRequests + 1

\* The admin's PUT /api/user/u2 with email e2 or e3, up to RaceRequests times
StartEmailRace(r) ==
  /\ req[r].kind = "idle"
  /\ \A q \in Slots : q < r => req[q].kind # "idle"
  /\ started < RaceRequests
  /\ started' = started + 1
  /\ UNCHANGED <<users, classes, idp, process>>
  /\ \E e \in {"e2", "e3"} :
       req' = [req EXCEPT ![r] =
                 [Idle EXCEPT !.kind = "update", !.pc = "auth",
                              !.session = "s1", !.id = "u2",
                              !.body = [NoBody EXCEPT !.email = e]]]

EmailRaceStep(r) ==
  \/ StartEmailRace(r)
  \/ RequireAuth(r)
  \/ AllowSelfOrPrivMe(r)
  \/ UpdateFind(r)
  \/ IdpAddEmail(r)
  \/ IdpGetUser(r)
  \/ IdpDeleteEmail(r)
  \/ UpdatePersist(r)
  \/ Retire(r)

NextEmailRace == \E r \in Slots : EmailRaceStep(r)

\* Email changes of one user, two of them in flight at a time, any fault.
SpecEmailRace == InitUser /\ [][NextEmailRace]_vars

NotGiven == <<>>

NoListQuery ==
  [page |-> NotGiven, limit |-> NotGiven, level |-> NotGiven,
   privilege |-> NotGiven]

\* Number(p) || d: NaN and 0 are falsy
NumberOr(p, d) == IF p = NotGiven \/ p[1] = 0 THEN d ELSE p[1]

Min(a, b) == IF a <= b THEN a ELSE b
Max(a, b) == IF a >= b THEN a ELSE b

\* The strings the sort compares, in their lexicographic order.
Names == <<"Adams", "Ann", "Bo", "Khan", "Lee">>

NameRank(n) == CHOOSE i \in 1..Len(Names) : Names[i] = n

\* sort({lastName: 1, firstName: 1}): document a may come before document b
SortKeyLeq(a, b) ==
  \/ NameRank(a.lastName) < NameRank(b.lastName)
  \/ /\ a.lastName = b.lastName
     /\ NameRank(a.firstName) <= NameRank(b.firstName)

\* The orders a cursor may return the documents S in: the store promises no
\* order for a find() without sort(), and none among documents that tie on
\* the sort key.
Orders(S) ==
  {o \in [1..Cardinality(S) -> S] :
     \A i, j \in 1..Cardinality(S) : i # j => o[i] # o[j]}

SortedOrders(S) ==
  {o \in Orders(S) :
     \A i, j \in 1..Cardinality(S) :
       i < j => SortKeyLeq(users[o[i]], users[o[j]])}

\* cursor.skip(skip).limit(limit)
SkipLimit(o, skip, limit) == SubSeq(o, skip + 1, Min(Len(o), skip + limit))

\* select() that returns the whole document.
Select_WholeDocument(doc, id, paths) ==
  [k \in DOMAIN doc \cup {"_id"} |-> IF k = "_id" THEN id ELSE doc[k]]

\* query.select("a b c").lean(): the listed paths the document has, and _id
Select(doc, id, paths) ==
  [k \in (paths \cap DOMAIN doc) \cup {"_id"} |->
     IF k = "_id" THEN id ELSE doc[k]]

UsersProjection == {"firstName", "lastName", "email", "privilege", "creationDate"}

userSelect ==
  {"firstName", "lastName", "email", "privilege", "enrolledClasses",
   "creationDate"}

classSelect ==
  {"level", "ageGroup", "instructor", "schedule", "isEnrollmentOpen", "image"}

\* populate({path: "enrolledClasses", select: classSelect}): each id of the
\* array is replaced by the selected class, ids of no class are dropped.
Populate(arr, paths) ==
  LET found == SelectSeq(arr, LAMBDA c : c \in ClassIds /\ classes[c].exists)
  IN [i \in 1..Len(found) |-> Select(classes[found[i]], found[i], paths)]

StudentItem(u) ==
  [Select(users[u], u, userSelect) EXCEPT
     !.enrolledClasses = Populate(users[u].enrolledClasses, classSelect)]

\* GET /api/students-with-classes: one await of Promise.all([find, count])
GetStudentsWithClasses(r) ==
  /\ At(r, "students", "query")
  /\ UNCHANGED <<users, classes, idp, started, process>>
  /\ \/ RespondFault(r, "Failed to fetch students")
     \/ LET limit == Max(1, Min(200, NumberOr(req[r].query.limit, 100)))
            page == Max(1, NumberOr(req[r].query.page, 1))
            skip == (page - 1) * limit
            students == {u \in UserIds : /\ users[u].state = "live"
                                         /\ users[u].privilege = "student"}
        IN \E o \in Orders(students) :
             LET docs == SkipLimit(o, skip, limit)
             IN req' = [req EXCEPT
                  ![r].pc = "done", ![r].status = 200, ![r].message = "items",
                  ![r].result =
                     [paginated |-> TRUE,
                      items |-> [i \in 1..Len(docs) |-> StudentItem(docs[i])],
                      total |-> Cardinality(students),
                      page |-> page, limit |-> limit]]

\* GET /api/users: the filter, then the paginated branch when page and limit
\* are both numbers above 0, else the legacy array; one await in either.
GetUsers(r) ==
  /\ At(r, "list", "query")
  /\ UNCHANGED <<users, classes, idp, started, process>>
  /\ \/ RespondFault(r, "Failed to fetch users")
     \/ LET q == req[r].query
            matching == {u \in UserIds :
                           /\ users[u].state = "live"
                           /\ \/ q.privilege = NotGiven
                              \/ users[u].privilege = q.privilege[1]}
            paginate == /\ q.page # NotGiven /\ q.page[1] > 0
                        /\ q.limit # NotGiven /\ q.limit[1] > 0
            cappedLimit == Min(200, Max(1, q.limit[1]))
            skip == (q.page[1] - 1) * cappedLimit
        IN \E o \in SortedOrders(matching) :
             LET docs == IF paginate THEN SkipLimit(o, skip, cappedLimit) ELSE o
                 items == [i \in 1..Len(docs) |->
                             Select(users[docs[i]], docs[i], UsersProjection)]
             IN req' = [req EXCEPT
                  ![r].pc = "done", ![r].status = 200, ![r].message = "items",
                  ![r].result =
                     IF paginate
                       THEN [paginated |-> TRUE, items |-> items,
                             total |-> Cardinality(matching),
                             page |-> q.page[1], limit |-> cappedLimit]
                       ELSE [paginated |-> FALSE, items |-> items]]

\* A User document with the fields of the schema that the listings read or
\* have to leave out.
ListedUser(s, e, p, cs, first, last) ==
  [state |-> "live", clerkId |-> s, email |-> e, privilege |-> p,
   enrolledClasses |-> cs, firstName |-> first, lastName |-> last,
   whatsapp |-> "phone", creationDate |-> "date"]

ListedClass(lv, rs) ==
  [exists |-> TRUE, isEnrollmentOpen |-> TRUE, roster |-> rs, level |-> lv,
   ageGroup |-> "adult", instructor |-> "Kim", schedule |-> <<"mon">>,
   image |-> "img", link |-> "join"]

\* Class levels, as the query string writes them: a number or a tag.
Levels == {"1", "ielts"}

\* An admin u1 and the students u2 and u3, in the order of their creation:
\* u2 in the level-1 class c1, u3 in the ielts class c2 or in none; the names
\* of u2 and u3 tie on the sort key, or follow the creation order, or do not.
InitList ==
  /\ \E f2 \in {"Ann", "Bo"}, l3 \in {"Khan", "Lee"}, e3 \in {<<>>, <<"c2">>} :
       /\ users = [u \in UserIds |->
                     IF u = "u1"
                       THEN ListedUser("s1", "e1", "admin", <<>>, "Ann", "Adams")
                     ELSE IF u = "u2"
                       THEN ListedUser("s2", "e2", "student", <<"c1">>, f2, "Lee")
                     ELSE IF u = "u3"
                       THEN ListedUser("s3", "e3", "student", e3, "Ann", l3)
                     ELSE NoUser("free")]
       /\ classes = [c \in ClassIds |->
                       IF c = "c1" THEN ListedClass("1", <<"u2">>)
                       ELSE ListedClass("ielts", IF e3 = <<>> THEN <<>>
                                                 ELSE <<"u3">>)]
  /\ InitIdp
  /\ req = [r \in Slots |-> Idle]
  /\ started = 0
  /\ InitProcess

\* The query strings sent: every page with limit 1, every limit with page 1,
\* a level, and the privilege filter of GET /api/users with pages of one.
Pages == {NotGiven, <<-1>>, <<0>>, <<1>>, <<2>>}
Limits == {NotGiven, <<0>>, <<1>>, <<2>>, <<10000>>}

ListQueries ==
  {[NoListQuery EXCEPT !.page = p, !.limit = <<1>>] : p \in Pages}
    \cup {[NoListQuery EXCEPT !.page = p, !.limit = <<2>>] : p \in {<<1>>, <<2>>}}
    \cup {[NoListQuery EXCEPT !.page = <<1>>, !.limit = l] : l \in Limits}
    \cup {[NoListQuery EXCEPT !.level = <<v>>] : v \in Levels}
    \cup {[NoListQuery EXCEPT !.page = p, !.limit = <<1>>,
                              !.privilege = <<"student">>] : p \in {<<1>>, <<2>>}}

\* A client sends GET /api/users or GET /api/students-with-classes, one call
\* after the other: as the admin with any of the query strings, as a student
\* or with no session.
StartList(r) ==
  /\ CanStart(r)
  /\ \A q \in Slots : req[q].pc \in {"idle", "done"}
  /\ started' = started + 1
  /\ UNCHANGED <<users, classes, idp, process>>
  /\ \E k \in {"list", "students"} :
       \/ \E q \in ListQueries :
            req' = [req EXCEPT ![r] =
                      [Idle EXCEPT !.kind = k, !.pc = "auth",
                                   !.session = "s1", !.query = q]]
       \/ \E s \in {NoSession, "s2"} :
            req' = [req EXCEPT ![r] =
                      [Idle EXCEPT !.kind = k, !.pc = "auth",
                                   !.session = s, !.query = NoListQuery]]

ListStep(r) ==
  \/ StartList(r)
  \/ RequireAuth(r)
  \/ RequireAdminOrInstructor(r)
  \/ GetUsers(r)
  \/ GetStudentsWithClasses(r)
  \/ Retire(r)

NextList == \E r \in Slots : ListStep(r)

\* The two listings over a store that no request changes.
SpecList == InitList /\ [][NextList]_vars

\* The request r was answered 200 by the listing of the given kind.
Listed(r, kind) == At(r, kind, "done") /\ req[r].status = 200

(***************************************************************************)
(* Properties: the listings                                                *)
(***************************************************************************)
\* C21: every item of a 200 answer of GET /api/students-with-classes has only
\* the keys firstName, lastName, email, privilege, creationDate,
\* enrolledClasses and _id, and every class in its enrolledClasses only the
\* keys level, ageGroup, instructor, schedule, isEnrollmentOpen, image and
\* _id; so no item has a whatsapp key and no class a roster or link key.
C21_ProjectionHidesFields ==
  \A r \in Slots :
    Listed(r, "students") =>
      \A i \in 1..Len(req[r].result.items) :
        LET item == req[r].result.items[i]
        IN /\ DOMAIN item \subseteq userSelect \cup {"_id"}
           /\ "whatsapp" \notin DOMAIN item
           /\ \A j \in 1..Len(item.enrolledClasses) :
                /\ DOMAIN item.enrolledClasses[j]
                     \subseteq classSelect \cup {"_id"}
                /\ "roster" \notin DOMAIN item.enrolledClasses[j]
                /\ "link" \notin DOMAIN item.enrolledClasses[j]

\* A returned student whose document holds whatsapp, with a populated class
\* whose document holds roster and link.
C21_Witness ==
  \E r \in Slots :
    /\ Listed(r, "students")
    /\ \E i \in 1..Len(req[r].result.items) :
         LET item == req[r].result.items[i]
         IN /\ "whatsapp" \in DOMAIN users[item._id]
            /\ \E j \in 1..Len(item.enrolledClasses) :
                 {"roster", "link"}
                   \subseteq DOMAIN classes[item.enrolledClasses[j]._id]

\* The student u has an enrolled class of level lv.
HasClassAtLevel(u, lv) ==
  \E c \in Range(users[u].enrolledClasses) :
    c \in ClassIds /\ classes[c].exists /\ classes[c].level = lv

StudentsAtLevel(lv) ==
  {u \in UserIds : /\ users[u].state = "live"
                   /\ users[u].privilege = "student"
                   /\ HasClassAtLevel(u, lv)}

\* C22: a 200 answer of GET /api/students-with-classes to a request that gives
\* a level holds only students with an enrolled class of that level, and its
\* total is the number of those students.
C22_LevelFilter ==
  \A r \in Slots :
    (Listed(r, "students") /\ req[r].query.level # NotGiven) =>
      /\ \A i \in 1..Len(req[r].result.items) :
           req[r].result.items[i]._id \in StudentsAtLevel(req[r].query.level[1])
      /\ req[r].result.total =
           Cardinality(StudentsAtLevel(req[r].query.level[1]))

\* C23: a 200 answer of either listing to a request that gives page and limit
\* is a paginated {items, total, page, limit} with limit = min(200, max(1,
\* limit)) and page = max(1, page), and holds at most limit items.
C23_PaginationClamped ==
  \A r \in Slots :
    ((Listed(r, "list") \/ Listed(r, "students"))
       /\ req[r].query.page # NotGiven /\ req[r].query.limit # NotGiven) =>
      /\ req[r].result.paginated
      /\ req[r].result.limit = Min(200, Max(1, req[r].query.limit[1]))
      /\ req[r].result.page = Max(1, req[r].query.page[1])
      /\ Len(req[r].result.items) <= req[r].result.limit

\* The ids of the items of the answer to r, in their order.
ItemIds(r) ==
  [i \in 1..Len(req[r].result.items) |-> req[r].result.items[i]._id]

\* The documents the listing of r's answer is about.
ListedDocs(r) ==
  {u \in UserIds :
     /\ users[u].state = "live"
     /\ IF req[r].kind = "students" THEN users[u].privilege = "student"
        ELSE \/ req[r].query.privilege = NotGiven
             \/ users[u].privilege = req[r].query.privilege[1]}

\* C24: when pages 1 and 2 of one listing, asked with the same limit and
\* filter, cover the whole listing, their items one after the other are every
\* listed record exactly once, in the order of (lastName, firstName), and
\* both answers give the same total.
C24_RoundTrip ==
  \A r, q \in Slots :
    (/\ r # q
     /\ req[r].kind = req[q].kind
     /\ Listed(r, "list") \/ Listed(r, "students")
     /\ Listed(q, "list") \/ Listed(q, "students")
     /\ req[r].result.paginated /\ req[q].result.paginated
     /\ req[r].query.privilege = req[q].query.privilege
     /\ req[r].result.limit = req[q].result.limit
     /\ req[r].result.page = 1 /\ req[q].result.page = 2
     /\ Cardinality(ListedDocs(r)) <= 2 * req[r].result.limit) =>
      LET all == ItemIds(r) \o ItemIds(q)
      IN /\ req[r].result.total = req[q].result.total
         /\ Len(all) = Cardinality(ListedDocs(r))
         /\ Range(all) = ListedDocs(r)
         /\ \A i, j \in 1..Len(all) :
              i < j => SortKeyLeq(users[all[i]], users[all[j]])

(***************************************************************************)
(* The global middleware of api/index.js, in the order of its app.use()    *)
(***************************************************************************)
\* The limits of the two limiters, per window and client address.
API_MAX == 2
BURST_MAX == 1

LimitOf(l) == IF l = "api" THEN API_MAX ELSE BURST_MAX

\* The URLs requested. The router treats /api/health and /api/health/ alike
\* (strict routing is off), so both reach the health handler.
HealthPaths == {"/api/health", "/api/health/"}

\* The entry of the route a request is dispatched to once the global
\* middleware has called next().
RouteEntry(kind) ==
  IF kind = "health" THEN "health"
  ELSE IF kind = "signUp" THEN "suFind"
  ELSE IF kind = "enroll" THEN "findUser"
  ELSE "auth"

\* app.use(security): helmet sets the response headers and calls next()
Security(r) ==
  /\ req[r].pc = "security"
  /\ UNCHANGED <<users, classes, idp, started, process>>
  /\ Goto(r, "cors")

\* app.use(cors({origin})): an Origin off the allowlist is an error, which
\* ends the request in the default error handler; a preflight is answered
\* 204 by cors itself; anything else goes on.
Cors(r) ==
  /\ req[r].pc = "cors"
  /\ UNCHANGED <<users, classes, idp, started, process>>
  /\ IF /\ req[r].http.origin # "none"
        /\ req[r].http.origin \notin env.ALLOWED_ORIGINS
       THEN Respond(r, 500, "Not allowed by CORS")
       ELSE IF req[r].http.method = "OPTIONS"
         THEN Respond(r, 204, "")
         ELSE Goto(r, "json")

\* app.use(express.json({limit: "100kb"})): a body that does not parse is
\* answered 400 by the error handler
Json(r) ==
  /\ req[r].pc = "json"
  /\ UNCHANGED <<users, classes, idp, started, process>>
  /\ IF req[r].http.badJson
       THEN Respond(r, 400, "Bad Request")
       ELSE Goto(r, "sanitize")

\* app.use(mongoSanitize()): strips keys that begin with $ or hold a dot; the
\* bodies sent here have none
Sanitize(r) ==
  /\ req[r].pc = "sanitize"
  /\ UNCHANGED <<users, classes, idp, started, process>>
  /\ Goto(r, "apiLimiter")

\* commonOptions.skip: req.method === "OPTIONS", or req.path === "/health"
\* under the /api mount, or req.originalUrl ending in /api/health
Skip(h) == h.method = "OPTIONS" \/ h.path = "/api/health"

TooMany == "Too many requests, please slow down."

\* The stage after the limiter l: burstLimiter is mounted on /api/sign-up only
AfterLimiter(r, l) ==
  IF l = "api" /\ req[r].http.path = "/api/sign-up" THEN "burstLimiter"
  ELSE "dbConnect"

\* A limiter that counts but never rejects.
Limiter_NeverRejects(r, l) ==
  /\ req[r].pc = IF l = "api" THEN "apiLimiter" ELSE "burstLimiter"
  /\ UNCHANGED <<users, classes, idp, started, cached, dials, env>>
  /\ IF Skip(req[r].http)
       THEN /\ UNCHANGED hits
            /\ Goto(r, AfterLimiter(r, l))
       ELSE /\ hits' = [hits EXCEPT ![l][req[r].http.ip] = @ + 1]
            /\ Goto(r, AfterLimiter(r, l))

\* rateLimit({windowMs, max, ...commonOptions}): a skipped request goes on
\* uncounted; any other is counted under keyGenerator(req) and goes on while
\* the count is within max, else it is answered 429 with the message.
Limiter(r, l) ==
  /\ req[r].pc = IF l = "api" THEN "apiLimiter" ELSE "burstLimiter"
  /\ UNCHANGED <<users, classes, idp, started, cached, dials, env>>
  /\ IF Skip(req[r].http)
       THEN /\ UNCHANGED hits
            /\ Goto(r, AfterLimiter(r, l))
       ELSE /\ hits' = [hits EXCEPT ![l][req[r].http.ip] = @ + 1]
            /\ IF hits[l][req[r].http.ip] + 1 > LimitOf(l)
                 THEN Respond(r, 429, TooMany)
                 ELSE Goto(r, AfterLimiter(r, l))

\* The window of the limiter l ends for the address a: its count starts anew.
WindowExpires(l, a) ==
  /\ hits[l][a] > 0
  /\ hits' = [hits EXCEPT ![l][a] = 0]
  /\ UNCHANGED <<users, classes, idp, req, started, cached, dials, env>>

DbErr == "Database connection failed"

\* dbConnect() that dials whenever there is no connection yet.
DbConnectCall_AlwaysDial(r) ==
  /\ req[r].pc = "dbConnect"
  /\ UNCHANGED <<users, classes, idp, started, hits, env>>
  /\ IF cached.conn # 0
       THEN /\ UNCHANGED <<cached, dials>>
            /\ req' = [req EXCEPT ![r].pc = RouteEntry(req[r].kind),
                                  ![r].http.handle = cached.conn]
       ELSE IF ~env.MONGODB_URI
         THEN /\ UNCHANGED <<cached, dials>>
              /\ Respond(r, 500, DbErr)
         ELSE /\ dials' = Append(dials, "pending")
              /\ cached' = [cached EXCEPT !.promise = Len(dials) + 1]
              /\ req' = [req EXCEPT ![r].pc = "dbAwait",
                                    ![r].http.awaited = Len(dials) + 1]

\* await dbConnect() of the middleware, up to the await inside dbConnect():
\* the connection if there is one; else the promise of the dial in
\* cached.promise, made now if there is none (a throw without MONGODB_URI).
DbConnectCall(r) ==
  /\ req[r].pc = "dbConnect"
  /\ UNCHANGED <<users, classes, idp, started, hits, env>>
  /\ IF cached.conn # 0
       THEN /\ UNCHANGED <<cached, dials>>
            /\ req' = [req EXCEPT ![r].pc = RouteEntry(req[r].kind),
                                  ![r].http.handle = cached.conn]
       ELSE IF cached.promise # 0
         THEN /\ UNCHANGED <<cached, dials>>
              /\ req' = [req EXCEPT ![r].pc = "dbAwait",
                                    ![r].http.awaited = cached.promise]
         ELSE IF ~env.MONGODB_URI
           THEN /\ UNCHANGED <<cached, dials>>
                /\ Respond(r, 500, DbErr)
           ELSE /\ dials' = Append(dials, "pending")
                /\ cached' = [cached EXCEPT !.promise = Len(dials) + 1]
                /\ req' = [req EXCEPT ![r].pc = "dbAwait",
                                      ![r].http.awaited = Len(dials) + 1]

\* mongoose.connect() of the dial d settles: connected, or failed.
DialSettles(d) ==
  /\ d \in 1..Len(dials)
  /\ dials[d] = "pending"
  /\ \E outcome \in {"fulfilled", "rejected"} :
       dials' = [dials EXCEPT ![d] = outcome]
  /\ UNCHANGED <<users, classes, idp, req, started, cached, hits, env>>

\* The middleware that sends the 500 and calls next() all the same.
DbConnectResume_NextOnFailure(r) ==
  /\ req[r].pc = "dbAwait"
  /\ dials[req[r].http.awaited] # "pending"
  /\ UNCHANGED <<users, classes, idp, started, dials, hits, env>>
  /\ IF dials[req[r].http.awaited] = "fulfilled"
       THEN /\ cached' = [cached EXCEPT !.conn = req[r].http.awaited]
            /\ req' = [req EXCEPT ![r].pc = RouteEntry(req[r].kind),
                                  ![r].http.handle = req[r].http.awaited]
       ELSE /\ UNCHANGED cached
            /\ req' = [req EXCEPT ![r].pc = RouteEntry(req[r].kind),
                                  ![r].status = 500, ![r].message = DbErr]

\* cached.conn = await cached.promise; return cached.conn; then next(), or
\* the catch block's 500 when the promise is rejected. The dial d connects
\* the handle d.
DbConnectResume(r) ==
  /\ req[r].pc = "dbAwait"
  /\ dials[req[r].http.awaited] # "pending"
  /\ UNCHANGED <<users, classes, idp, started, dials, hits, env>>
  /\ IF dials[req[r].http.awaited] = "fulfilled"
       THEN /\ cached' = [cached EXCEPT !.conn = req[r].http.awaited]
            /\ req' = [req EXCEPT ![r].pc = RouteEntry(req[r].kind),
                                  ![r].http.handle = req[r].http.awaited]
       ELSE /\ UNCHANGED cached
            /\ Respond(r, 500, DbErr)

\* app.get("/api/health"): res.json({ok: true, db: readyState})
Health(r) ==
  /\ At(r, "health", "health")
  /\ UNCHANGED <<users, classes, idp, started, process>>
  /\ Respond(r, 200, "ok")

\* The store of InitUser under a process whose MONGODB_URI is set or not.
InitPipe ==
  /\ users = [u \in UserIds |->
                IF u = "u1" THEN LiveUser("s1", "e1", "admin", <<>>)
                ELSE IF u = "u2" THEN LiveUser("s2", "e2", "student", <<"c1">>)
                ELSE NoUser("free")]
  /\ classes = [c \in ClassIds |->
                  [exists |-> TRUE, isEnrollmentOpen |-> TRUE,
                   roster |-> IF c = "c1" THEN <<"u2">> ELSE <<>>]]
  /\ InitIdp
  /\ req = [r \in Slots |-> Idle]
  /\ started = 0
  /\ cached = [conn |-> 0, promise |-> 0]
  /\ dials = <<>>
  /\ hits = [l \in Limiters |-> [a \in Addrs |-> 0]]
  /\ \E uri \in BOOLEAN :
       env = [MONGODB_URI |-> uri, ALLOWED_ORIGINS |-> {"app"}]

Http(method, path, origin, ip) ==
  [NoHttp EXCEPT !.method = method, !.path = path, !.origin = origin,
                 !.ip = ip]

\* Health checks from one address, two of them in flight at a time.
StartDb(r) ==
  /\ req[r].kind = "idle"
  /\ \A q \in Slots : q < r => req[q].kind # "idle"
  /\ started < RaceRequests
  /\ started' = started + 1
  /\ UNCHANGED <<users, classes, idp, process>>
  /\ \E ip \in Addrs :
       req' = [req EXCEPT ![r] =
                 [Idle EXCEPT !.kind = "health", !.pc = "security",
                              !.http = Http("GET", "/api/health", "none", ip)]]

DbStep(r) ==
  \/ StartDb(r)
  \/ Security(r)
  \/ Cors(r)
  \/ Json(r)
  \/ Sanitize(r)
  \/ Limiter(r, "api")
  \/ DbConnectCall(r)
  \/ DbConnectResume(r)
  \/ Health(r)
  \/ Retire(r)

NextDb ==
  \/ \E r \in Slots : DbStep(r)
  \/ \E d \in 1..RaceRequests : DialSettles(d)

\* Requests that call dbConnect() while others do, in a process that starts
\* without a connection.
SpecDb == InitPipe /\ [][NextDb]_vars

\* The number of requests of a behaviour that exhausts a window.
PipeRequests == API_MAX + 2

\* A client sends, each call after the answer to the one before and from
\* either address: a health
\* check under either URL, a preflight, GET /api/users under any session,
\* POST /api/sign-up with a body that parses or not, PUT
\* /api/users/u2/enroll for the class c2; or a GET /api/users from a page of
\* a foreign origin.
StartPipe(r) ==
  /\ req[r].kind = "idle"
  /\ \A q \in Slots : q < r => req[q].kind # "idle"
  /\ \A q \in Slots : req[q].kind = "idle"
  /\ started < PipeRequests
  /\ started' = started + 1
  /\ UNCHANGED <<users, classes, idp, process>>
  /\ \/ \E ip \in Addrs, path \in HealthPaths :
          req' = [req EXCEPT ![r] =
                    [Idle EXCEPT !.kind = "health", !.pc = "security",
                                 !.http = Http("GET", path, "none", ip)]]
     \/ \E origin \in {"app", "evil"} :
          req' = [req EXCEPT ![r] =
                    [Idle EXCEPT !.kind = "options", !.pc = "security",
                                 !.http = Http("OPTIONS", "/api/users",
                                               origin, "a1")]]
     \/ \E ip \in Addrs, s \in {NoSession, "s1", "s2"} :
          req' = [req EXCEPT ![r] =
                    [Idle EXCEPT !.kind = "list", !.pc = "security",
                                 !.session = s,
                                 !.http = Http("GET", "/api/users", "none", ip)]]
     \/ req' = [req EXCEPT ![r] =
                  [Idle EXCEPT !.kind = "list", !.pc = "security",
                               !.session = "s1",
                               !.http = Http("GET", "/api/users", "evil", "a1")]]
     \/ req' = [req EXCEPT ![r] =
                  [Idle EXCEPT !.kind = "enroll", !.pc = "security",
                               !.id = "u2", !.classId = "c2",
                               !.http = Http("PUT", "/api/users/u2/enroll",
                                             "none", "a1")]]
     \/ \E ip \in Addrs, bad \in BOOLEAN :
          req' = [req EXCEPT ![r] =
                    [Idle EXCEPT !.kind = "signUp", !.pc = "security",
                                 !.body = [NoBody EXCEPT !.email = "e3",
                                                         !.clerkId = "s3"],
                                 !.http = [Http("POST", "/api/sign-up",
                                                "none", ip)
                                             EXCEPT !.badJson = bad]]]

PipeStep(r) ==
  \/ StartPipe(r)
  \/ Security(r)
  \/ Cors(r)
  \/ Json(r)
  \/ Sanitize(r)
  \/ Limiter(r, "api")
  \/ Limiter(r, "burst")
  \/ DbConnectCall(r)
  \/ DbConnectResume(r)
  \/ Health(r)
  \/ RequireAuth(r)
  \/ RequireAdminOrInstructor(r)
  \/ ListQuery(r)
  \/ SignUpFind(r)
  \/ SignUpSave(r)
  \/ EnrollFindUser(r)
  \/ EnrollFindClass(r)
  \/ EnrollAddUser(r)
  \/ EnrollAddRoster(r)
  \/ Retire(r)

NextPipe ==
  \/ \E r \in Slots : PipeStep(r)
  \/ \E d \in 1..PipeRequests : DialSettles(d)
  \/ \E l \in Limiters, a \in Addrs : WindowExpires(l, a)

\* Requests through the whole middleware chain and into their routes.
SpecPipe == InitPipe /\ [][NextPipe]_vars

(***************************************************************************)
(* Properties: the connection cache                                        *)
(***************************************************************************)
DialsInFlight == {d \in 1..Len(dials) : dials[d] = "pending"}

\* C25: whatever the interleaving of the dbConnect() calls, at most one dial
\* is in flight at a time, and every call that returns yields the same
\* handle: the one in cached.conn, which never changes once it is set.
C25_OneDialOneHandle ==
  /\ [](/\ Cardinality(DialsInFlight) <= 1
        /\ \A r \in Slots :
             req[r].http.handle # 0 => req[r].http.handle = cached.conn)
  /\ [][cached.conn # 0 => cached'.conn = cached.conn]_vars

\* Two calls that both awaited the dial in flight have returned.
C25_Witness ==
  \E r, q \in Slots :
    /\ r # q
    /\ req[r].http.awaited # 0 /\ req[q].http.awaited # 0
    /\ req[r].http.handle # 0 /\ req[q].http.handle # 0

(***************************************************************************)
(* Properties: the rate limiters                                           *)
(***************************************************************************)
\* The request r takes the step of the api limiter.
ApiLimiterStep(r) == req[r].pc = "apiLimiter" /\ req'[r].pc # "apiLimiter"

\* C26: a request that is not skipped passes the api limiter only as one of
\* the first API_MAX counted from its address in the window; any further one
\* is answered 429 with the message, with the connection cache and the stores
\* untouched, and takes no step after that; the counts of the other
\* addresses stay as they are.
C26_ApiLimitPerAddress ==
  [][\A r \in Slots :
       /\ (ApiLimiterStep(r) /\ ~Skip(req[r].http)) =>
            /\ hits'["api"] = [hits["api"] EXCEPT ![req[r].http.ip] = @ + 1]
            /\ IF hits["api"][req[r].http.ip] >= API_MAX
                 THEN /\ req'[r].pc = "done"
                      /\ req'[r].status = 429
                      /\ req'[r].message = TooMany
                      /\ UNCHANGED <<cached, dials, users, classes, idp>>
                 ELSE req'[r].pc \in {"burstLimiter", "dbConnect"}
       /\ req[r].status = 429 => req'[r] \in {req[r], Idle}]_vars

\* A request answered 429 after an address used up its window, while the
\* other address has requests counted and within the limit.
C26_Witness ==
  \E r \in Slots :
    /\ req[r].pc = "done" /\ req[r].status = 429 /\ req[r].message = TooMany
    /\ hits["api"][req[r].http.ip] > API_MAX
    /\ \E a \in Addrs : hits["api"][a] \in 1..API_MAX

\* C27: no step of a preflight or of a request to the health endpoint changes
\* a count of either limiter, and none of them is answered 429.
C27_SkippedNeverCounted ==
  /\ [][\A r \in Slots :
          (req[r].kind \in {"health", "options"} /\ req'[r] # req[r]) =>
            hits' = hits]_vars
  /\ [](\A r \in Slots :
          req[r].kind \in {"health", "options"} => req[r].status # 429)

(***************************************************************************)
(* Properties: the order of the stages                                     *)
(***************************************************************************)
\* The stages in their order: security headers, CORS, body parse, sanitizer,
\* rate limiters, database connect, auth gate, authorization, handler.
StageRank(pc) ==
  IF pc = "security" THEN 1
  ELSE IF pc = "cors" THEN 2
  ELSE IF pc = "json" THEN 3
  ELSE IF pc = "sanitize" THEN 4
  ELSE IF pc \in {"apiLimiter", "burstLimiter"} THEN 5
  ELSE IF pc \in {"dbConnect", "dbAwait"} THEN 6
  ELSE IF pc = "auth" THEN 7
  ELSE IF pc = "requirePriv" THEN 8
  ELSE 9

\* The request r is in a stage and takes a step.
StageStep(r) == req[r].pc \notin {"idle", "done"} /\ req'[r] # req[r]

\* C28: a request moves from a stage only to a later one or to its answer,
\* and through every stage up to the database connect one by one; once it is
\* answered it takes no further step; the connection cache changes only in
\* the database connect stage, and the stores and the IdP only in a handler.
C28_StagesInOrder ==
  [][\A r \in Slots :
       /\ (StageStep(r) /\ req'[r].pc # "done") =>
            /\ req'[r].status = 0
            /\ \/ /\ StageRank(req'[r].pc) = StageRank(req[r].pc)
                  /\ StageRank(req[r].pc) \in {5, 6, 9}
               \/ /\ StageRank(req'[r].pc) > StageRank(req[r].pc)
                  /\ StageRank(req[r].pc) < 6 =>
                       StageRank(req'[r].pc) = StageRank(req[r].pc) + 1
       /\ req[r].pc = "done" => req'[r] \in {req[r], Idle}
       /\ StageStep(r) =>
            /\ StageRank(req[r].pc) # 6 => UNCHANGED <<cached, dials>>
            /\ StageRank(req[r].pc) # 5 => UNCHANGED hits
            /\ StageRank(req[r].pc) # 9 => UNCHANGED <<users, classes, idp>>]_vars

\* A sign-up went through every stage and its handler stored the user, and a
\* request is answered 429 by a limiter.
C28_Witness ==
  /\ users["u3"].state = "live"
  /\ \E r \in Slots : req[r].pc = "done" /\ req[r].status = 429

(***************************************************************************)
(* Properties: failures late in the email change and in the deletion       *)
(***************************************************************************)
\* C31: when the deletion of the old IdP address fails (the step at idpDel
\* leaves the IdP with both addresses), the request is not answered by that
\* failure: it goes on to persist the local update.
C31_DeleteFailureNotSurfaced ==
  [][\A r \in Slots :
       (At(r, "update", "idpDel") /\ Steps(r) /\ idp' = idp)
       => /\ req'[r].pc = "updPersist"
          /\ req'[r].status # 500]_vars

\* The admin's PUT /api/user/u2 with an email that nobody holds yet
StartEmailPair(r) ==
  /\ CanStart(r)
  /\ started' = started + 1
  /\ UNCHANGED <<users, classes, idp, process>>
  /\ \E e \in FreshEmails :
       req' = [req EXCEPT ![r] =
                 [Idle EXCEPT !.kind = "update", !.pc = "auth",
                              !.session = "s1", !.id = "u2",
                              !.body = [NoBody EXCEPT !.email = e]]]

EmailPairStep(r) ==
  \/ StartEmailPair(r)
  \/ RequireAuth(r)
  \/ AllowSelfOrPrivMe(r)
  \/ UpdateFind(r)
  \/ IdpAddEmail(r)
  \/ IdpGetUser(r)
  \/ IdpDeleteEmail(r)
  \/ UpdatePersist(r)
  \/ Retire(r)

NextEmailPair == \E r \in Slots : EmailPairStep(r)

\* Email changes of one user to addresses that are free, in flight together.
SpecEmailPair == InitUser /\ [][NextEmailPair]_vars

\* C32: when two email changes of one user that both read the same stored
\* address and ask for different new ones have both been answered 200, the
\* local email is the primary address of the IdP subject and the subject no
\* longer lists the address both started from.
C32_InterleavedChangesAgree ==
  \A r, q \in Slots :
    (/\ r # q
     /\ ChangesEmail(r) /\ ChangesEmail(q)
     /\ req[r].id = req[q].id
     /\ req[r].orig.email = req[q].orig.email
     /\ req[r].body.email # req[q].body.email
     /\ req[r].pc = "done" /\ req[r].status = 200
     /\ req[q].pc = "done" /\ req[q].status = 200
     /\ UserFound(req[r].id))
    => /\ users[req[r].id].email = idp[req[r].orig.clerkId].primary
       /\ req[r].orig.email \notin idp[req[r].orig.clerkId].emails


\* C33: when the first request served is a DELETE /api/user/:id that is
\* aborted because the IdP rejects the deletion of the subject, every class
\* whose roster held the user's id when the request read the user still holds
\* it once the request is answered.
C33_AbortedDeletionKeepsRosters ==
  [][\A r \in Slots :
       (/\ started = 1
        /\ At(r, "delete", "idpDelete") /\ Steps(r)
        /\ req'[r].dbFault)
       => \A c \in Range(req[r].orig.enrolledClasses) :
            Includes(classes'[c].roster, req[r].id)]_vars


\* C34: once an enroll request for user u and a DELETE /api/user/u that ran
\* beside it have both completed, with no pull of the cascade outstanding,
\* the roster of no class holds the id of a user record that no longer exists.
C34_NoRosterEntryForDeletedUser ==
  \A r, q \in Slots :
    (/\ At(r, "delete", "done") /\ req[r].pending = {}
     /\ At(q, "enroll", "done")
     /\ req[q].id = req[r].id)
    => \A c \in ClassIds :
         OnRoster(req[r].id, c) => UserFound(req[r].id)


\* Student u2 lists c1 and c2 in enrolledClasses; the class router has deleted
\* c2 since, which leaves the users' enrolledClasses as they were.
InitOrphan ==
  /\ users = [u \in UserIds |->
                IF u = "u1" THEN LiveUser("s1", "e1", "admin", <<>>)
                ELSE IF u = "u2"
                  THEN LiveUser("s2", "e2", "student", <<"c1", "c2">>)
                ELSE NoUser("free")]
  /\ classes = [c \in ClassIds |->
                  IF c = "c1"
                    THEN [exists |-> TRUE, isEnrollmentOpen |-> TRUE,
                          roster |-> <<"u2">>]
                    ELSE [exists |-> FALSE, isEnrollmentOpen |-> FALSE,
                          roster |-> <<>>]]
  /\ InitIdp
  /\ req = [r \in Slots |-> Idle]
  /\ started = 0
  /\ InitProcess

\* DELETE /api/user/u2 by the admin or by the student
StartOrphan(r) ==
  /\ CanStart(r)
  /\ started' = started + 1
  /\ UNCHANGED <<users, classes, idp, process>>
  /\ \E s \in {"s1", "s2"} :
       req' = [req EXCEPT ![r] =
                 [Idle EXCEPT !.kind = "delete", !.pc = "auth",
                              !.session = s, !.id = "u2"]]

OrphanStep(r) ==
  \/ StartOrphan(r)
  \/ RequireAuth(r)
  \/ RequireAdminOrInstructor(r)
  \/ DeleteFind(r)
  \/ \E c \in ClassIds : DeletePull(r, c)
  \/ IdpDeleteUser(r)
  \/ DeleteLocal(r)
  \/ Retire(r)

NextOrphan ==
  \/ \E r \in Slots : OrphanStep(r)
  \/ \E c \in ClassIds : DeleteClass(c)

\* User deletion when a class of the user's enrolledClasses is gone, while the
\* class router may delete the other class as well; any store or IdP fault.
SpecOrphan == InitOrphan /\ [][NextOrphan]_vars

\* C35: a delete request is answered 500 only after a rejection of the store
\* or of the IdP, never because a class of the user's enrolledClasses does
\* not exist; a delete request answered 204 has removed the local record and
\* the IdP subject and has left the user's id on the roster of no class.
C35_MissingClassNotFatal ==
  \A r \in Slots :
    /\ (At(r, "delete", "done") /\ req[r].status = 500) => req[r].dbFault
    /\ (At(r, "delete", "done") /\ req[r].status = 204 /\ req[r].pending = {})
       => /\ ~UserFound(req[r].id)
          /\ ~idp[req[r].orig.clerkId].live
          /\ \A c \in ClassIds : ~OnRoster(req[r].id, c)

\* C35 witness: a delete request answered 204 whose cascade named the missing
\* class c2 and the existing class c1; c1 still exists and its roster is empty.
C35_Witness ==
  \E r \in Slots :
    /\ At(r, "delete", "done") /\ req[r].status = 204 /\ req[r].pending = {}
    /\ req[r].orig.enrolledClasses = <<"c1", "c2">>
    /\ ~ClassFound("c2")
    /\ ClassFound("c1") /\ classes["c1"].roster = <<>>
    /\ ~UserFound("u2") /\ ~idp["s2"].live


(***************************************************************************)
(* GET /api/students-with-classes beside writers                           *)
(***************************************************************************)
\* The two queries that Promise.all([find, countDocuments]) issues; the store
\* serves them one at a time, in either order, with writes in between.
StudentQueries == {"find", "count"}

\* The answer under construction: what the queries settled so far returned.
StudentsSoFar(r) ==
  IF req[r].pending = StudentQueries
    THEN [paginated |-> FALSE, items |-> <<>>, total |-> 0,
          page |-> Max(1, NumberOr(req[r].query.page, 1)),
          limit |-> Max(1, Min(200, NumberOr(req[r].query.limit, 100)))]
    ELSE req[r].result

\* One of the two queries settles with the value v for its field of the
\* answer; when it is the last one, Promise.all resolves and res.json runs.
StudentsSettle(r, q, res) ==
  req' = [req EXCEPT
            ![r].pending = @ \ {q},
            ![r].result = [res EXCEPT !.paginated = (req[r].pending = {q})],
            ![r].pc = IF req[r].pending = {q} THEN "done" ELSE @,
            ![r].status = IF req[r].pending = {q} THEN 200 ELSE @,
            ![r].message = IF req[r].pending = {q} THEN "items" ELSE @]

\* User.find({privilege: "student"}).select().skip().limit().populate().lean()
StudentsFind(r) ==
  /\ At(r, "students", "query")
  /\ "find" \in req[r].pending
  /\ UNCHANGED <<users, classes, idp, started, process>>
  /\ \/ RespondFault(r, "Failed to fetch students")
     \/ LET res == StudentsSoFar(r)
            students == {u \in UserIds : /\ users[u].state = "live"
                                         /\ users[u].privilege = "student"}
        IN \E o \in Orders(students) :
             LET docs == SkipLimit(o, (res.page - 1) * res.limit, res.limit)
             IN StudentsSettle(r, "find",
                  [res EXCEPT !.items =
                     [i \in 1..Len(docs) |-> StudentItem(docs[i])]])

\* User.countDocuments({privilege: "student"})
StudentsCount(r) ==
  /\ At(r, "students", "query")
  /\ "count" \in req[r].pending
  /\ UNCHANGED <<users, classes, idp, started, process>>
  /\ \/ RespondFault(r, "Failed to fetch students")
     \/ LET students == {u \in UserIds : /\ users[u].state = "live"
                                         /\ users[u].privilege = "student"}
        IN StudentsSettle(r, "count",
             [StudentsSoFar(r) EXCEPT !.total = Cardinality(students)])

\* GET /api/students-with-classes by the admin, beside a sign-up or the
\* deletion of student u2
StartPage(r) ==
  /\ CanStart(r)
  /\ started' = started + 1
  /\ UNCHANGED <<users, classes, idp, process>>
  /\ \/ \E l \in {NotGiven, <<1>>} :
          req' = [req EXCEPT ![r] =
                    [Idle EXCEPT !.kind = "students", !.pc = "auth",
                                 !.session = "s1",
                                 !.query = [NoListQuery EXCEPT !.limit = l],
                                 !.pending = StudentQueries]]
     \/ req' = [req EXCEPT ![r] =
                  [Idle EXCEPT !.kind = "delete", !.pc = "auth",
                               !.session = "s1", !.id = "u2"]]
     \/ req' = [req EXCEPT ![r] =
                  [Idle EXCEPT !.kind = "signUp", !.pc = "suFind",
                               !.body = [NoBody EXCEPT !.email = "e3",
                                                       !.clerkId = "s3",
                                                       !.complete = TRUE]]]

PageStep(r) ==
  \/ StartPage(r)
  \/ RequireAuth(r)
  \/ RequireAdminOrInstructor(r)
  \/ StudentsFind(r)
  \/ StudentsCount(r)
  \/ DeleteFind(r)
  \/ \E c \in ClassIds : DeletePull(r, c)
  \/ IdpDeleteUser(r)
  \/ DeleteLocal(r)
  \/ SignUpFind(r)
  \/ SignUpSave(r)
  \/ Retire(r)

NextPage == \E r \in Slots : PageStep(r)

\* The student listing beside sign-ups and deletions, any interleaving.
SpecPage == InitUser /\ [][NextPage]_vars

\* C36: every 200 answer of GET /api/students-with-classes has at most limit
\* items and a total that is at least the number of its items, also when a
\* sign-up or a deletion is applied between its two queries.
C36_TotalCoversItems ==
  \A r \in Slots :
    Listed(r, "students") =>
      /\ Len(req[r].result.items) <= req[r].result.limit
      /\ req[r].result.total >= Len(req[r].result.items)


(***************************************************************************)
(* Properties: recovery of the connection cache                            *)
(***************************************************************************)
\* C37: a call of dbConnect() made when no handle is cached and no dial is in
\* flight, every dial made so far having failed, and MONGODB_URI is set,
\* starts a new dial and awaits it.
C37_FailedDialNotMemoized ==
  [][\A r \in Slots :
       (/\ req[r].pc = "dbConnect" /\ Steps(r)
        /\ cached.conn = 0
        /\ \A d \in 1..Len(dials) : dials[d] = "rejected"
        /\ env.MONGODB_URI)
       => /\ Len(dials') = Len(dials) + 1
          /\ dials'[Len(dials')] = "pending"
          /\ req'[r].http.awaited = Len(dials')]_vars


(***************************************************************************)
(* Properties: updates of a user that is gone                              *)
(***************************************************************************)
\* C38: a PUT /api/user/:id whose target does not exist when the update is
\* persisted, the store not failing, is answered 404, also when the user was
\* deleted between the handler's lookup and its write; and no update request
\* is answered 200 while its target does not exist.
C38_VanishedUserIs404 ==
  [][\A r \in Slots :
       (/\ At(r, "update", "updPersist") /\ Steps(r)
        /\ ~UserFound(req[r].id)
        /\ ~req'[r].dbFault)
       => /\ req'[r].status = 404
          /\ req'[r].status # 200]_vars


(***************************************************************************)
(* Properties: role resolution                                             *)
(***************************************************************************)
\* C39: each gate decides by the privilege that the store holds for the
\* caller's record at the moment the gate runs, never by an earlier one: it
\* lets the request through as privileged exactly if that privilege is admin
\* or instructor, and requireAdminOrInstructor answers 403 otherwise. So a
\* request that starts after a privilege write completed is authorized
\* against the new privilege.
C39_RoleNeverStale ==
  [][\A r \in Slots :
       (/\ req[r].pc \in {"requirePriv", "gateMe"} /\ Steps(r)
        /\ req[r].session # NoSession
        /\ ~req'[r].dbFault)
       => LET privileged ==
                \E u \in UserIds : /\ users[u].state = "live"
                                    /\ users[u].clerkId = req[r].session
                                    /\ users[u].privilege \in Privileged
          IN /\ (req'[r].via = "priv") <=> privileged
             /\ (req[r].pc = "requirePriv" /\ ~privileged)
                  => (req'[r].pc = "done" /\ req'[r].status = 403)]_vars

\* C39 witness: the update that made student u2 an admin was answered 200,
\* and a request of u2's session has passed requireAdminOrInstructor since.
C39_Witness ==
  \E r, q \in Slots :
    /\ At(r, "update", "done") /\ req[r].status = 200
    /\ req[r].id = "u2" /\ req[r].body.privilege = "admin"
    /\ users["u2"].privilege = "admin"
    /\ req[q].kind \in {"delete", "list", "students"}
    /\ req[q].session = "s2"
    /\ req[q].via = "priv"

====
